---- MODULE Spec2Model ----
(***************************************************************************)
(* Class-management admin UI: the recurrence handling of the schedule      *)
(* screens.                                                                *)
(*                                                                         *)
(*  - RecurringClassForm (bulk creation of recurring class sessions): the  *)
(*    form state, its field handlers and handleSubmit, which builds an     *)
(*    RRule, expands it with rule.all() and hands one schedule per         *)
(*    occurrence to onSave.                                                *)
(*  - SchedulePage appointment form: formData, the recurrence and          *)
(*    end-condition handlers that write the rRule text, and handleOpenForm *)
(*    that parses it back.                                                 *)
(*                                                                         *)
(* Time is counted in whole hours since Monday 2024-01-01 00:00 UTC.  A    *)
(* JavaScript Date is its epoch value; the browser's time zone is a fixed  *)
(* offset tz (local = UTC + tz) chosen by the environment.                 *)
(***************************************************************************)
EXTENDS Integers, Sequences, FiniteSets, TLC

\* ------------------------------------------------------------------ bounds
\* Largest interval typed into an interval field.
MaxInterval == 2
\* Largest occurrence count typed into a count field.
MaxCount == 3
\* Number of recurrence periods the expansion walks before giving up (the
\* library walks until year 9999).
Horizon == 40
\* Longest rule text, in ';'-separated parts, that the end controls still extend.
MaxParts == 6
\* Largest id the coaches page gives a new coach.
MaxCoaches == 2

\* ------------------------------------------------------- value encodings
\* '' of a text/date/time input, and null/undefined of a numeric field.
Empty == -1000
\* JavaScript NaN (parseInt of a string that holds no number).
NaN == -999

Min(S) == CHOOSE x \in S : \A y \in S : x <= y

\* ---------------------------------------------------------------- calendar
\* Gregorian calendar as the Date object and the recurrence library see it.
\* A month is numbered year * 12 + (month - 1); day 0 is 2024-01-01.
BaseMonth == 2024 * 12

IsLeap(y) == (y % 4 = 0 /\ y % 100 # 0) \/ y % 400 = 0

DaysInMonth(mi) ==
    LET y == mi \div 12
        m == (mi % 12) + 1
    IN  IF m = 2 THEN (IF IsLeap(y) THEN 29 ELSE 28)
        ELSE IF m \in {4, 6, 9, 11} THEN 30 ELSE 31

RECURSIVE FirstDay(_)
FirstDay(mi) == IF mi <= BaseMonth THEN 0
                ELSE FirstDay(mi - 1) + DaysInMonth(mi - 1)

RECURSIVE MonthFrom(_, _)
MonthFrom(day, mi) == IF day < FirstDay(mi + 1) THEN mi ELSE MonthFrom(day, mi + 1)

\* Month number and day-of-month (1..31) of a day number.
MonthOf(day) == MonthFrom(day, BaseMonth)
DayOfMonth(day) == day - FirstDay(MonthOf(day)) + 1

\* Weekday of a day number in the library's numbering: MO = 0 .. SU = 6.
Weekday(day) == day % 7

\* getUTC* views of an epoch value.
UTCDay(t) == t \div 24
UTCHour(t) == t % 24

\* The digits YYYYMMDD of a day number, read as one number.
YMD(day) ==
    LET mi == MonthOf(day)
    IN  (mi \div 12) * 10000 + ((mi % 12) + 1) * 100 + DayOfMonth(day)

\* Date.UTC(year, month, day) for a month from 2024-01 on: the day count runs
\* on from the first of the month, so a day past the month's end rolls over.
DateUTC(year, month, day) == (FirstDay(year * 12 + month) + day - 1) * 24

\* ------------------------------------------------------------ input sets
\* Classes offered by the class selector (the ids of the classes prop).
Classes == {1}
ClassName(id) == IF id = 1 THEN "Bouldering" ELSE IF id = 2 THEN "Lead" ELSE ""

\* Values the date and time pickers deliver (day numbers, hours of the day).
StartDateInputs == {7, 30}
EndDateInputs == {12, 30}
StartTimeInputs == {9, 20}
EndTimeInputs == {10}
\* Weekday checkboxes exercised (MO, WE, FR).
WeekdayInputs == {0, 2, 4}
\* e.target.value of a number input: '' or a number.
IntervalInputs == {Empty, 0, 1, MaxInterval}
CountInputs == {Empty, 0, 1, MaxCount}
\* Time-zone offsets of the browser, in hours east of UTC.
TimeZones == {-5, 0}

\* parseInt of a number input's value.
ParseInt(v) == IF v = Empty THEN NaN ELSE v
\* JavaScript truthiness of a number.
Truthy(n) == n # NaN /\ n # 0 /\ n # Empty
\* Math.max(1, n), NaN if n is NaN.
MathMax1(n) == IF n = NaN THEN NaN ELSE IF n < 1 THEN 1 ELSE n

VARIABLES
    tz,          \* the browser's time-zone offset
    \* RecurringClassForm state (useState hooks)
    classId, startDate, endDate, startTime, endTime, frequency, interval,
    weekdays, count, isLoading, title,
    \* what the latest handler of RecurringClassForm did
    rcfEvent,    \* name of the latest handler
    alertMsg,    \* text of the alert() it raised, "" if none
    closure,     \* <<form values captured by handleSubmit>> once validation passed
    rule,        \* <<options of the RRule it built>>
    onSaveArg,   \* <<schedules it passed to onSave>>
    \* SchedulePage state (useState hooks)
    schedules,   \* the page's schedule list
    formData,    \* the appointment form's data
    isNew, showForm,
    sfEvent,     \* the latest handler of the appointment form and its input
    formSubmitting,
    pending,     \* <<the handler of the page suspended at an await>>
    \* one call of parseUntilDate
    untilCall,   \* its argument, the clock and what it returned
    \* the mock API module
    store,       \* its arrays: students, coaches, classes, schedules
    apiEvent,    \* the latest API call, its argument and what it resolved to
    \* CoachesPage state (useState hooks) and its latest handler
    coachPage

rcfForm == <<classId, startDate, endDate, startTime, endTime, frequency,
             interval, weekdays, count, title>>
rcfOut == <<rcfEvent, alertMsg, closure, rule, onSaveArg>>
rcfVars == <<rcfForm, isLoading, rcfOut>>
sfAsync == <<formSubmitting, pending>>
sfVars == <<schedules, formData, isNew, showForm, sfEvent, sfAsync>>
storeVars == <<store, apiEvent, coachPage>>
auxVars == <<untilCall, storeVars>>
vars == <<tz, rcfVars, sfVars, auxVars>>

\* -------------------------------------------------- the recurrence library
\* new Date(`${date}T${time}`): a date-time string without zone is local time.
LocalDate(day, hour) == day * 24 + hour - tz

NoUntil == Empty
NoCount == Empty

\* Days of recurrence period k (0 is the period holding dtstart) that satisfy
\* the rule's BYxxx parts.  The library works on the UTC fields of dtstart:
\*   DAILY   one day every interval days;
\*   WEEKLY  the days of byweekday in the week (starting Monday) interval
\*           weeks on, the first week taken from dtstart's day;
\*   MONTHLY dtstart's day of the month in the month interval months on,
\*           nothing in a month that has no such day.
Candidates(opts, k) ==
    LET sd == UTCDay(opts.dtstart)
    IN  CASE opts.freq = "DAILY" -> {sd + k * opts.interval}
          [] opts.freq = "WEEKLY" ->
               LET ws == (sd - Weekday(sd)) + 7 * opts.interval * k
                   lo == IF k = 0 THEN sd ELSE ws
                   by == IF opts.byweekday = <<>> THEN {Weekday(sd)}
                         ELSE {opts.byweekday[i] : i \in DOMAIN opts.byweekday}
               IN  {d \in lo .. ws + 6 : Weekday(d) \in by}
          [] OTHER ->
               LET mi == MonthOf(sd) + k * opts.interval
                   dom == DayOfMonth(sd)
               IN  IF dom <= DaysInMonth(mi) THEN {FirstDay(mi) + dom - 1} ELSE {}

\* The library's iteration over one period's days, in ascending order: stop at
\* the first occurrence after until, skip what is before dtstart, stop when
\* count occurrences are out.
RECURSIVE IterDays(_, _, _)
IterDays(opts, days, st) ==
    IF days = {} THEN st
    ELSE LET d == Min(days)
             res == d * 24 + UTCHour(opts.dtstart)
         IN  IF opts.until # NoUntil /\ res > opts.until
             THEN [st EXCEPT !.done = TRUE]
             ELSE IF res >= opts.dtstart
             THEN LET occ == Append(st.occ, res)
                  IN  IF opts.count # NoCount /\ Len(occ) = opts.count
                      THEN [occ |-> occ, done |-> TRUE]
                      ELSE IterDays(opts, days \ {d}, [st EXCEPT !.occ = occ])
             ELSE IterDays(opts, days \ {d}, st)

RECURSIVE IterPeriods(_, _, _)
IterPeriods(opts, k, st) ==
    IF k > Horizon THEN st
    ELSE LET st2 == IterDays(opts, Candidates(opts, k), st)
         IN  IF st2.done THEN st2 ELSE IterPeriods(opts, k + 1, st2)

\* rule.all(): the occurrence dates of a rule, as epoch values.
RuleAll(opts) == IterPeriods(opts, 0, [occ |-> <<>>, done |-> FALSE]).occ

\* ------------------------------------------------------ RecurringClassForm
\* The state a freshly mounted form holds, which handleClose restores.
RcfReset ==
    /\ classId' = Empty
    /\ startDate' = Empty
    /\ endDate' = Empty
    /\ startTime' = 9
    /\ endTime' = 10
    /\ frequency' = "WEEKLY"
    /\ interval' = 1
    /\ weekdays' = <<0>>
    /\ count' = Empty
    /\ title' = ""

\* An edit handler raises no alert, builds no rule and does not call onSave.
RcfEdited(name) ==
    /\ rcfEvent' = name
    /\ alertMsg' = ""
    /\ closure' = <<>>
    /\ rule' = <<>>
    /\ onSaveArg' = <<>>
    /\ UNCHANGED <<tz, auxVars, sfVars, isLoading>>

handleClassChange(v) ==
    /\ classId' = v
    /\ title' = IF v \in Classes THEN ClassName(v) ELSE title
    /\ UNCHANGED <<startDate, endDate, startTime, endTime, frequency, interval,
                   weekdays, count>>
    /\ RcfEdited("handleClassChange")

setStartDate(v) ==
    /\ startDate' = v
    /\ UNCHANGED <<classId, endDate, startTime, endTime, frequency, interval,
                   weekdays, count, title>>
    /\ RcfEdited("setStartDate")

setEndDate(v) ==
    /\ endDate' = v
    /\ UNCHANGED <<classId, startDate, startTime, endTime, frequency, interval,
                   weekdays, count, title>>
    /\ RcfEdited("setEndDate")

setStartTime(v) ==
    /\ startTime' = v
    /\ UNCHANGED <<classId, startDate, endDate, endTime, frequency, interval,
                   weekdays, count, title>>
    /\ RcfEdited("setStartTime")

setEndTime(v) ==
    /\ endTime' = v
    /\ UNCHANGED <<classId, startDate, endDate, startTime, frequency, interval,
                   weekdays, count, title>>
    /\ RcfEdited("setEndTime")

\* The weekday list handleFrequencyChange leaves for a frequency.
FrequencyWeekdays(value) == IF value # "WEEKLY" THEN <<>> ELSE <<0>>

handleFrequencyChange(value) ==
    /\ frequency' = value
    /\ weekdays' = FrequencyWeekdays(value)
    /\ UNCHANGED <<classId, startDate, endDate, startTime, endTime, interval,
                   count, title>>
    /\ RcfEdited("handleFrequencyChange")

\* weekdays.filter(day => day !== weekday)
Without(seq, x) == SelectSeq(seq, LAMBDA e : e # x)
Includes(seq, x) == \E i \in DOMAIN seq : seq[i] = x

WeekdayToggled(days, weekday) ==
    IF Includes(days, weekday) THEN Without(days, weekday)
    ELSE Append(days, weekday)

\* The checkboxes are rendered only while the frequency is WEEKLY.
handleWeekdayToggle(weekday) ==
    /\ frequency = "WEEKLY"
    /\ weekdays' = WeekdayToggled(weekdays, weekday)
    /\ UNCHANGED <<classId, startDate, endDate, startTime, endTime, frequency,
                   interval, count, title>>
    /\ RcfEdited("handleWeekdayToggle")

\* Math.max(1, parseInt(e.target.value) || 1)
RcfIntervalOf(v) ==
    LET n == ParseInt(v) IN MathMax1(IF Truthy(n) THEN n ELSE 1)

setInterval(v) ==
    /\ interval' = RcfIntervalOf(v)
    /\ UNCHANGED <<classId, startDate, endDate, startTime, endTime, frequency,
                   weekdays, count, title>>
    /\ RcfEdited("setInterval")

\* e.target.value === '' ? null : Math.max(1, parseInt(e.target.value))
RcfCountOf(v) == IF v = Empty THEN Empty ELSE MathMax1(ParseInt(v))

setCount(v) ==
    /\ count' = RcfCountOf(v)
    /\ UNCHANGED <<classId, startDate, endDate, startTime, endTime, frequency,
                   interval, weekdays, title>>
    /\ RcfEdited("setCount")

\* Cancel button, or the dialog's onClose.
handleClose ==
    /\ RcfReset
    /\ RcfEdited("handleClose")

\* A guard that forgets the weekday list.
SubmitRejectedFieldsOnly ==
    \/ classId = Empty
    \/ startDate = Empty
    \/ endDate = Empty
    \/ startTime = Empty
    \/ endTime = Empty

\* The guard at the top of handleSubmit.
SubmitRejected ==
    \/ classId = Empty
    \/ startDate = Empty
    \/ endDate = Empty
    \/ startTime = Empty
    \/ endTime = Empty
    \/ (frequency = "WEEKLY" /\ Len(weekdays) = 0)

\* An until option that a count does not remove.
RuleUntilKept(until, cnt) == until

\* An until option one day late.
UntilOfNextDay(day) == LocalDate(day + 1, 23)

\* new Date(`${endDate}T23:59:59`): the last hour of the end date, local time.
UntilOf(day) == LocalDate(day, 23)

\* The until option: count, when given and positive, replaces it.
RuleUntil(until, cnt) == IF cnt # Empty /\ cnt # NaN /\ cnt > 0 THEN NoUntil ELSE until
RuleCount(cnt) == IF cnt # Empty /\ cnt # NaN /\ cnt > 0 THEN cnt ELSE NoCount

\* rRuleOptions as handed to new RRule().
RuleOptions ==
    [freq |-> frequency,
     interval |-> interval,
     dtstart |-> LocalDate(startDate, startTime),
     until |-> RuleUntil(UntilOf(endDate), count),
     byweekday |-> IF frequency = "WEEKLY" /\ Len(weekdays) > 0 THEN weekdays ELSE <<>>,
     count |-> RuleCount(count)]

\* A duration that wraps an end time earlier than the start time to the next day.
DurationMsWrapped(st, et) == IF et >= st THEN et - st ELSE et - st + 24

\* endDateTime.getTime() - startDateTime.getTime(): both on 1970-01-01, local.
DurationMs(st, et) == et - st

\* ScheduleOf with a rule re-anchored at each occurrence.
ScheduleOfOwnRule(date, opts) ==
    [classId |-> classId,
     startDate |-> date,
     endDate |-> date + (endTime - startTime),
     title |-> title,
     rRule |-> [opts EXCEPT !.dtstart = date]]

\* The schedule object built for one occurrence date.
ScheduleOf(date, opts) ==
    [classId |-> classId,
     startDate |-> date,
     endDate |-> date + DurationMs(startTime, endTime),
     title |-> title,
     rRule |-> opts]

\* handleSubmit up to its await: validation, then the rule, its expansion and
\* the call of onSave.  The submit button is disabled while isLoading.
handleSubmit ==
    /\ ~isLoading
    /\ rcfEvent' = "handleSubmit"
    /\ UNCHANGED <<tz, auxVars, sfVars, rcfForm>>
    /\ IF SubmitRejected
       THEN /\ alertMsg' = "Please fill in all required fields"
            /\ closure' = <<>>
            /\ rule' = <<>>
            /\ onSaveArg' = <<>>
            /\ UNCHANGED isLoading
       ELSE LET opts == RuleOptions
                occurrences == RuleAll(opts)
            IN  /\ isLoading' = TRUE
                /\ alertMsg' = ""
                /\ closure' = <<[classId |-> classId, startDate |-> startDate,
                                 endDate |-> endDate, startTime |-> startTime,
                                 endTime |-> endTime, frequency |-> frequency,
                                 interval |-> interval, weekdays |-> weekdays,
                                 count |-> count]>>
                /\ rule' = <<opts>>
                /\ onSaveArg' = <<[i \in DOMAIN occurrences |->
                                     ScheduleOf(occurrences[i], opts)]>>

\* onSave's promise resolves: handleClose(), then finally setIsLoading(false).
onSaveResolved ==
    /\ isLoading
    /\ RcfReset
    /\ isLoading' = FALSE
    /\ rcfEvent' = "onSaveResolved"
    /\ alertMsg' = ""
    /\ closure' = <<>>
    /\ rule' = <<>>
    /\ onSaveArg' = <<>>
    /\ UNCHANGED <<tz, auxVars, sfVars>>

\* onSave's promise rejects: the catch block alerts, then setIsLoading(false).
onSaveRejected ==
    /\ isLoading
    /\ isLoading' = FALSE
    /\ rcfEvent' = "onSaveRejected"
    /\ alertMsg' = "Failed to create recurring class"
    /\ closure' = <<>>
    /\ rule' = <<>>
    /\ onSaveArg' = <<>>
    /\ UNCHANGED <<tz, auxVars, sfVars, rcfForm>>

RcfInit ==
    /\ classId = Empty
    /\ startDate = Empty
    /\ endDate = Empty
    /\ startTime = 9
    /\ endTime = 10
    /\ frequency = "WEEKLY"
    /\ interval = 1
    /\ weekdays = <<0>>
    /\ count = Empty
    /\ isLoading = FALSE
    /\ title = ""
    /\ rcfEvent = "mount"
    /\ alertMsg = ""
    /\ closure = <<>>
    /\ rule = <<>>
    /\ onSaveArg = <<>>

RcfNext ==
    \/ \E v \in Classes : handleClassChange(v)
    \/ \E v \in StartDateInputs \cup {Empty} : setStartDate(v)
    \/ \E v \in EndDateInputs \cup {Empty} : setEndDate(v)
    \/ \E v \in StartTimeInputs \cup {Empty} : setStartTime(v)
    \/ \E v \in EndTimeInputs \cup {Empty} : setEndTime(v)
    \/ \E v \in {"DAILY", "WEEKLY", "MONTHLY"} : handleFrequencyChange(v)
    \/ \E d \in WeekdayInputs : handleWeekdayToggle(d)
    \/ \E v \in IntervalInputs : setInterval(v)
    \/ \E v \in CountInputs : setCount(v)
    \/ handleClose
    \/ handleSubmit
    \/ onSaveResolved
    \/ onSaveRejected

\* ------------------------------------------------- rRule text of the page
\* An rRule string is the sequence of its ';'-separated parts, each KEY=value;
\* '' is the one empty part, undefined is the empty sequence.  A part holds its
\* key and its value as a number (n), a word (s) or a comma-separated list (l).
\* A number that prints with a sign, and NaN, is not matched by \d+.
FreqPart(f) == [k |-> "FREQ", n |-> 0, s |-> f, l |-> <<>>]
NumPart(key, num) == [k |-> key, n |-> num, s |-> "", l |-> <<>>]
ByDayPart(days) == [k |-> "BYDAY", n |-> 0, s |-> "", l |-> days]
\* UNTIL=<date digits><rest>: the rest is the time, T000000Z as the form writes it.
UntilPart(num, rest) == [k |-> "UNTIL", n |-> num, s |-> rest, l |-> <<>>]
EmptyPart == [k |-> "", n |-> 0, s |-> "", l |-> <<>>]
Undefined == <<>>
EmptyString == <<EmptyPart>>

\* formData.rRule || ''
OrEmpty(text) == IF text = Undefined THEN EmptyString ELSE text
\* truthiness of an rRule string
NonEmpty(text) == text # Undefined /\ text # EmptyString

\* \d+ matches the printed number.
Digits(num) == num # NaN /\ num # Empty /\ num >= 0

\* text.includes(`${key}=`)
HasKey(text, key) == \E i \in DOMAIN text : text[i].k = key
\* text.includes(`FREQ=${f}`)
HasFreq(text, f) == \E i \in DOMAIN text : text[i].k = "FREQ" /\ text[i].s = f

\* Position of the first part matched by /KEY=(\d+)/, 0 if none.
NumMatch(text, key) ==
    LET hits == {i \in DOMAIN text : text[i].k = key /\ Digits(text[i].n)}
    IN  IF hits = {} THEN 0 ELSE Min(hits)

\* Position of the first part matched by /BYDAY=([^;]+)/, 0 if none.
ByDayMatch(text) ==
    LET hits == {i \in DOMAIN text : text[i].k = "BYDAY" /\ text[i].l # <<>>}
    IN  IF hits = {} THEN 0 ELSE Min(hits)

\* \d{8}: eight digits (years 1000 to 9999).
EightDigits(num) == num >= 10000000 /\ num <= 99999999
\* T\d{6}Z and T\d+Z among the time texts used here.
SixDigitTime(rest) == rest \in {"T000000Z", "T235959Z"}
DigitTime(rest) == rest \in {"T000000Z", "T235959Z", "T0000Z"}

\* Position of the first part matched by /UNTIL=(\d{8}T\d{6}Z)/, 0 if none.
UntilMatch(text) ==
    LET hits == {i \in DOMAIN text : /\ text[i].k = "UNTIL"
                                     /\ EightDigits(text[i].n)
                                     /\ SixDigitTime(text[i].s)}
    IN  IF hits = {} THEN 0 ELSE Min(hits)

RemoveAt(seq, i) == [j \in 1 .. Len(seq) - 1 |-> IF j < i THEN seq[j] ELSE seq[j + 1]]

\* text.replace(/;KEY=\d+/, '') for COUNT and text.replace(/;UNTIL=\d+T\d+Z/, ''):
\* the first such part that follows a ';' is cut out.
RemovePart(text, key) ==
    LET hits == {i \in DOMAIN text : /\ i > 1
                                     /\ text[i].k = key
                                     /\ Digits(text[i].n)
                                     /\ key = "UNTIL" => DigitTime(text[i].s)}
    IN  IF hits = {} THEN text ELSE RemoveAt(text, Min(hits))

\* UntilStr from the local calendar day (getFullYear, getMonth, getDate).
UntilStrLocal(date) == UntilPart(YMD((date + tz) \div 24), "T000000Z")

\* date.getUTCFullYear() + month + day + 'T000000Z': the UTC calendar day.
UntilStr(date) == UntilPart(YMD(UTCDay(date)), "T000000Z")

\* parseUntilDate without the "- 1" that makes the month 0-indexed.
parseUntilDateMonthKept(text, now) ==
    LET i == UntilMatch(text)
        untilStr == text[i].n
    IN  IF HasKey(text, "UNTIL") /\ i # 0
        THEN DateUTC(untilStr \div 10000, (untilStr \div 100) % 100, untilStr % 100)
        ELSE now

\* parseUntilDate: UTC midnight of the UNTIL day, the current date when the
\* token is missing or not of the form \d{8}T\d{6}Z.
parseUntilDate(text, now) ==
    LET i == UntilMatch(text)
        untilStr == text[i].n
        year == untilStr \div 10000
        month == ((untilStr \div 100) % 100) - 1
        day == untilStr % 100
    IN  IF HasKey(text, "UNTIL") /\ i # 0 THEN DateUTC(year, month, day) ELSE now

\* --------------------------------------------------- appointment form data
\* getDate() and getMonth() + 1 of a Date: the local calendar day.
GetDate(t) == DayOfMonth((t + tz) \div 24)
GetMonth1(t) == (MonthOf((t + tz) \div 24) % 12) + 1

\* Optional list values: <<>> is undefined, <<list>> a list.
Some(x) == <<x>>

\* formData of a new appointment (handleOpenForm without argument).
NewFormData(now) ==
    [id |-> Empty, classId |-> Empty, startDate |-> now, endDate |-> now + 1,
     title |-> "", rRule |-> Undefined, hasRRule |-> FALSE,
     recurrenceType |-> "none", interval |-> Empty, selectedDays |-> Undefined,
     monthDay |-> Empty, endType |-> "", endCount |-> Empty]

\* handleOpenForm evaluates match(...)[1] on a null match.
OpenThrows(text) ==
    \/ HasKey(text, "BYDAY") /\ ByDayMatch(text) = 0
    \/ HasKey(text, "BYMONTHDAY") /\ NumMatch(text, "BYMONTHDAY") = 0
    \/ HasKey(text, "COUNT") /\ NumMatch(text, "COUNT") = 0

ParsedType(text) ==
    IF ~NonEmpty(text) THEN "none"
    ELSE IF HasFreq(text, "DAILY") THEN "daily"
    ELSE IF HasFreq(text, "WEEKLY") THEN "weekly"
    ELSE IF HasFreq(text, "MONTHLY") THEN "monthly"
    ELSE IF HasFreq(text, "YEARLY") THEN "yearly" ELSE "custom"

ParsedInterval(text) ==
    IF NumMatch(text, "INTERVAL") # 0 THEN text[NumMatch(text, "INTERVAL")].n ELSE 1

ParsedDays(text) ==
    IF HasKey(text, "BYDAY") THEN text[ByDayMatch(text)].l ELSE <<"MO">>

ParsedMonthDay(text, start) ==
    IF HasKey(text, "BYMONTHDAY") THEN text[NumMatch(text, "BYMONTHDAY")].n
    ELSE GetDate(start)

ParsedEndType(text) ==
    IF HasKey(text, "COUNT") THEN "count"
    ELSE IF HasKey(text, "UNTIL") THEN "until" ELSE "never"

ParsedEndCount(text) ==
    IF HasKey(text, "COUNT") THEN text[NumMatch(text, "COUNT")].n ELSE 10

\* formData of an existing appointment (handleOpenForm(appointmentData)).
OpenFormData(a, now) ==
    [id |-> a.id, classId |-> a.classId, startDate |-> a.startDate,
     endDate |-> IF HasKey(a.rRule, "UNTIL") THEN parseUntilDate(a.rRule, now)
                 ELSE a.endDate,
     title |-> a.title, rRule |-> a.rRule, hasRRule |-> TRUE,
     recurrenceType |-> ParsedType(a.rRule),
     interval |-> ParsedInterval(a.rRule),
     selectedDays |-> Some(ParsedDays(a.rRule)),
     monthDay |-> ParsedMonthDay(a.rRule, a.startDate),
     endType |-> ParsedEndType(a.rRule),
     endCount |-> ParsedEndCount(a.rRule)]

\* parseInt(e.target.value) || fallback
IntOr(v, fallback) == IF Truthy(ParseInt(v)) THEN ParseInt(v) ELSE fallback
\* formData.x || fallback for a number
NumOr(x, fallback) == IF Truthy(x) THEN x ELSE fallback
\* formData.selectedDays || ['MO']: an empty array is truthy
DaysOr(d) == IF d = Undefined THEN <<"MO">> ELSE d[1]

WithRule(fd, text) == [fd EXCEPT !.rRule = text, !.hasRRule = TRUE]

\* Repeat selector: only 'none' touches the rule (delete newFormData.rRule).
RepeatChange(fd, value) ==
    IF value = "none"
    THEN [fd EXCEPT !.recurrenceType = value, !.rRule = Undefined, !.hasRRule = FALSE]
    ELSE [fd EXCEPT !.recurrenceType = value]

DailyIntervalChange(fd, v) ==
    LET n == IntOr(v, 1)
    IN  WithRule([fd EXCEPT !.interval = n],
                 <<FreqPart("DAILY"), NumPart("INTERVAL", n)>>)

WeeklyIntervalChange(fd, v) ==
    LET n == IntOr(v, 1)
    IN  WithRule([fd EXCEPT !.interval = n],
                 <<FreqPart("WEEKLY"), NumPart("INTERVAL", n),
                   ByDayPart(DaysOr(fd.selectedDays))>>)

\* ChipDays without the fallback: the last weekday can be removed.
ChipDaysNoDefault(selectedDays, day) ==
    IF Includes(selectedDays, day) THEN Without(selectedDays, day)
    ELSE Append(selectedDays, day)

\* ChipDays that refuses to remove the last weekday.
ChipDaysKeepsLast(selectedDays, day) ==
    IF Includes(selectedDays, day)
    THEN IF Len(Without(selectedDays, day)) = 0 THEN selectedDays
         ELSE Without(selectedDays, day)
    ELSE Append(selectedDays, day)

\* The list a weekday chip leaves when clicked.
ChipDays(selectedDays, day) ==
    IF Includes(selectedDays, day)
    THEN IF Len(Without(selectedDays, day)) = 0 THEN <<"MO">>
         ELSE Without(selectedDays, day)
    ELSE Append(selectedDays, day)

DayChipClick(fd, day) ==
    LET days == ChipDays(DaysOr(fd.selectedDays), day)
    IN  WithRule([fd EXCEPT !.selectedDays = Some(days)],
                 <<FreqPart("WEEKLY"), NumPart("INTERVAL", NumOr(fd.interval, 1)),
                   ByDayPart(days)>>)

MonthDayChange(fd, v) ==
    LET md == IntOr(v, 1)
    IN  WithRule([fd EXCEPT !.monthDay = md],
                 <<FreqPart("MONTHLY"), NumPart("BYMONTHDAY", md)>>)

MonthlyIntervalChange(fd, v) ==
    LET n == IntOr(v, 1)
        md == NumOr(fd.monthDay, GetDate(fd.startDate))
    IN  WithRule([fd EXCEPT !.interval = n],
                 <<FreqPart("MONTHLY"), NumPart("INTERVAL", n), NumPart("BYMONTHDAY", md)>>)

YearlyIntervalChange(fd, v) ==
    LET n == IntOr(v, 1)
    IN  WithRule([fd EXCEPT !.interval = n],
                 <<FreqPart("YEARLY"), NumPart("INTERVAL", n),
                   NumPart("BYMONTH", GetMonth1(fd.startDate)),
                   NumPart("BYMONTHDAY", GetDate(fd.startDate))>>)

\* Custom rule text field (handleInputChange, name rRule).
CustomRuleChange(fd, text) == WithRule(fd, text)

\* Ends radio group.
EndTypeChange(fd, value) ==
    LET base == RemovePart(RemovePart(OrEmpty(fd.rRule), "COUNT"), "UNTIL")
        text == IF value = "count" /\ Truthy(fd.endCount)
                THEN Append(base, NumPart("COUNT", fd.endCount))
                ELSE IF value = "until" /\ fd.endDate # Empty
                THEN Append(base, UntilStr(fd.endDate))
                ELSE base
    IN  WithRule([fd EXCEPT !.endType = value], text)

\* "After n occurrences" field.
EndCountChange(fd, v) ==
    LET n == IntOr(v, 10)
    IN  WithRule([fd EXCEPT !.endCount = n],
                 Append(RemovePart(OrEmpty(fd.rRule), "COUNT"), NumPart("COUNT", n)))

\* "On date" field: new Date('YYYY-MM-DD') is UTC midnight of that day.
UntilDateChange(fd, day) ==
    LET date == day * 24
    IN  WithRule([fd EXCEPT !.endDate = date],
                 Append(RemovePart(OrEmpty(fd.rRule), "UNTIL"), UntilStr(date)))

\* Class selector of the appointment form.
SfClassChange(fd, v) ==
    [fd EXCEPT !.classId = v,
               !.title = IF fd.title # "" THEN fd.title ELSE ClassName(v)]

\* ------------------------------------------------------------ input sets
\* The current time when the form is opened (rounded to the half hour by the
\* page; whole hours here): Wednesday 2024-01-17 10:00 UTC.
NowInputs == {16 * 24 + 10}
SfIntervalInputs == {Empty, MaxInterval}
MonthDayInputs == {15}
DayChips == {"MO", "TU"}
EndCountInputs == {MaxCount}
\* Days picked in the "On date" field (2024-02-10).
UntilInputs == {40}
RepeatInputs == {"none", "daily", "weekly", "monthly", "yearly", "custom"}
EndTypeInputs == {"never", "count", "until"}
CustomRuleInputs ==
    {EmptyString,
     <<FreqPart("WEEKLY"), NumPart("INTERVAL", 2), ByDayPart(<<"MO", "WE", "FR">>)>>}

\* Appointments of the page's list that handleOpenForm is given.
Appointment(text) ==
    [id |-> 1, classId |-> 1, startDate |-> 16 * 24 + 10, endDate |-> 16 * 24 + 11,
     title |-> "Bouldering", rRule |-> text]

\* Canonical rule texts: FREQ, INTERVAL, BYDAY or BYMONTHDAY, then optionally
\* COUNT or UNTIL.
CanonicalEnds == {<<>>, <<NumPart("COUNT", MaxCount)>>, <<UntilPart(YMD(40), "T000000Z")>>}
CanonicalRules ==
    {<<FreqPart("DAILY"), NumPart("INTERVAL", n)>> \o e :
        n \in 1 .. MaxInterval, e \in CanonicalEnds}
    \cup {<<FreqPart("WEEKLY"), NumPart("INTERVAL", n), ByDayPart(d)>> \o e :
        n \in 1 .. MaxInterval, d \in {<<"TU">>, <<"MO", "TU">>},
        e \in CanonicalEnds}
    \cup {<<FreqPart("MONTHLY"), NumPart("INTERVAL", n), NumPart("BYMONTHDAY", md)>> \o e :
        n \in 1 .. MaxInterval, md \in {15}, e \in CanonicalEnds}

\* The page's list: an appointment without a rule and one per canonical rule.
RECURSIVE SeqOfSet(_)
SeqOfSet(S) == IF S = {} THEN <<>>
               ELSE LET x == CHOOSE y \in S : TRUE IN <<x>> \o SeqOfSet(S \ {x})
AppointmentLists == {SeqOfSet({Appointment(t) : t \in CanonicalRules \cup {Undefined}})}

\* ------------------------------------------------- appointment form actions
SfStep(name, arg, fd) ==
    /\ showForm
    /\ pending = <<>>
    /\ formData' = fd
    /\ sfEvent' = [name |-> name, arg |-> arg]
    /\ UNCHANGED <<tz, auxVars, rcfVars, schedules, isNew, showForm, sfAsync>>

\* "Add Class" button.
handleOpenFormNew ==
    \E now \in NowInputs :
        /\ ~showForm
        /\ pending = <<>>
        /\ isNew' = TRUE
        /\ formData' = NewFormData(now)
        /\ showForm' = TRUE
        /\ sfEvent' = [name |-> "handleOpenForm", arg |-> "new"]
        /\ UNCHANGED <<tz, auxVars, rcfVars, schedules, sfAsync>>

\* handleOpenForm(appointmentData) for an appointment of the list.
handleOpenFormEdit ==
    \E i \in DOMAIN schedules, now \in NowInputs :
        /\ ~showForm
        /\ pending = <<>>
        /\ ~OpenThrows(schedules[i].rRule)
        /\ isNew' = FALSE
        /\ formData' = OpenFormData(schedules[i], now)
        /\ showForm' = TRUE
        /\ sfEvent' = [name |-> "handleOpenForm", arg |-> "edit"]
        /\ UNCHANGED <<tz, auxVars, rcfVars, schedules, sfAsync>>

\* Cancel button and the dialog's onClose.
closeForm ==
    /\ showForm
    /\ pending = <<>>
    /\ showForm' = FALSE
    /\ sfEvent' = [name |-> "closeForm", arg |-> ""]
    /\ UNCHANGED <<tz, auxVars, rcfVars, schedules, formData, isNew, sfAsync>>

sfClassChangeOf(classes) ==
    \E v \in classes : SfStep("handleClassChange", "", SfClassChange(formData, v))
sfClassChange == sfClassChangeOf(Classes)

\* The event records the type the selector showed before the change.
repeatChangeOf(inputs) ==
    \E v \in inputs :
        SfStep("repeatChange", formData.recurrenceType, RepeatChange(formData, v))
repeatChange == repeatChangeOf(RepeatInputs)

dailyIntervalChangeOf(inputs) ==
    /\ formData.recurrenceType = "daily"
    /\ \E v \in inputs :
          SfStep("dailyIntervalChange", "", DailyIntervalChange(formData, v))
dailyIntervalChange == dailyIntervalChangeOf(SfIntervalInputs)

weeklyIntervalChangeOf(inputs) ==
    /\ formData.recurrenceType = "weekly"
    /\ \E v \in inputs :
          SfStep("weeklyIntervalChange", "", WeeklyIntervalChange(formData, v))
weeklyIntervalChange == weeklyIntervalChangeOf(SfIntervalInputs)

\* The event records whether the chip was switched on or off, and whether it
\* was the only selected one.
dayChipClickOf(chips) ==
    /\ formData.recurrenceType = "weekly"
    /\ \E d \in chips :
          SfStep("dayChipClick",
                 IF ~Includes(DaysOr(formData.selectedDays), d) THEN "on"
                 ELSE IF Len(DaysOr(formData.selectedDays)) > 1 THEN "off"
                 ELSE IF d = "MO" THEN "only Monday off" ELSE "last off",
                 DayChipClick(formData, d))
dayChipClick == dayChipClickOf(DayChips)

monthDayChange ==
    /\ formData.recurrenceType = "monthly"
    /\ \E v \in MonthDayInputs : SfStep("monthDayChange", "", MonthDayChange(formData, v))

monthlyIntervalChangeOf(inputs) ==
    /\ formData.recurrenceType = "monthly"
    /\ \E v \in inputs :
          SfStep("monthlyIntervalChange", "", MonthlyIntervalChange(formData, v))
monthlyIntervalChange == monthlyIntervalChangeOf(SfIntervalInputs)

yearlyIntervalChangeOf(inputs) ==
    /\ formData.recurrenceType = "yearly"
    /\ \E v \in inputs :
          SfStep("yearlyIntervalChange", "", YearlyIntervalChange(formData, v))
yearlyIntervalChange == yearlyIntervalChangeOf(SfIntervalInputs)

customRuleChange ==
    /\ formData.recurrenceType = "custom"
    /\ \E t \in CustomRuleInputs : SfStep("customRuleChange", "", CustomRuleChange(formData, t))

\* The end-condition controls are rendered for daily, weekly, monthly, yearly.
EndControlsShown == formData.recurrenceType \in {"daily", "weekly", "monthly", "yearly"}

\* A radio button reports a change only when another one was selected
\* (value is formData.endType || 'never').  The rule text is followed up to
\* MaxParts parts.
endTypeChange ==
    /\ EndControlsShown
    /\ Len(OrEmpty(formData.rRule)) < MaxParts
    /\ \E v \in EndTypeInputs :
          /\ v # (IF formData.endType = "" THEN "never" ELSE formData.endType)
          /\ SfStep("endTypeChange", "", EndTypeChange(formData, v))

endCountChangeOf(inputs) ==
    /\ EndControlsShown
    /\ formData.endType = "count"
    /\ Len(OrEmpty(formData.rRule)) < MaxParts
    /\ \E v \in inputs : SfStep("endCountChange", "", EndCountChange(formData, v))
endCountChange == endCountChangeOf(EndCountInputs)

untilDateChange ==
    /\ EndControlsShown
    /\ formData.endType = "until"
    /\ \E d \in UntilInputs : SfStep("untilDateChange", "", UntilDateChange(formData, d))

\* Before any interaction: an empty formData object, the form closed.
SfInit ==
    /\ formData = NewFormData(Min(NowInputs))
    /\ isNew = TRUE
    /\ showForm = FALSE
    /\ sfEvent = [name |-> "mount", arg |-> ""]
    /\ formSubmitting = FALSE
    /\ pending = <<>>

\* One session of the form: handleOpenForm replaces formData as a whole, so
\* what a session does never depends on an earlier one.
SfNext ==
    \/ handleOpenFormNew
    \/ handleOpenFormEdit
    \/ repeatChange
    \/ dailyIntervalChange
    \/ weeklyIntervalChange
    \/ dayChipClick
    \/ monthDayChange
    \/ monthlyIntervalChange
    \/ yearlyIntervalChange
    \/ customRuleChange
    \/ endTypeChange
    \/ endCountChange
    \/ untilDateChange

\* ------------------------------------------------- a call of parseUntilDate
\* Calendar days named by well-formed tokens: 2024-01-01, 2024-02-10,
\* 2024-02-29, 2024-12-31, 2025-01-01.
UntilDays == {0, 40, 59, 365, 366}
WellFormedUntil == {UntilPart(YMD(d), t) : d \in UntilDays, t \in {"T000000Z", "T235959Z"}}
\* A date without time, a four-digit time, seven date digits, letters.
MalformedUntil ==
    {UntilPart(YMD(40), ""), UntilPart(YMD(40), "T0000Z"),
     UntilPart(2024021, "T000000Z"), UntilPart(NaN, "T000000Z")}
UntilPrefixes ==
    {<<>>, <<FreqPart("DAILY"), NumPart("INTERVAL", 1)>>,
     <<FreqPart("WEEKLY"), NumPart("INTERVAL", MaxInterval), ByDayPart(<<"MO", "WE">>)>>}
\* Rule texts handed to parseUntilDate: with one UNTIL token at the end, or none.
UntilTexts ==
    {p \o <<u>> : p \in UntilPrefixes, u \in WellFormedUntil \cup MalformedUntil}
    \cup {IF p = <<>> THEN EmptyString ELSE p : p \in UntilPrefixes}
\* new Date() at the time of the call.
UntilNows == {16 * 24 + 10, 45 * 24 + 23}

NoUntilCall == [text |-> Undefined, now |-> 0, result |-> Empty]

callParseUntilDate ==
    /\ untilCall.result = Empty
    /\ untilCall' = [untilCall EXCEPT !.result = parseUntilDate(untilCall.text, untilCall.now)]
    /\ UNCHANGED <<tz, rcfVars, sfVars, storeVars>>

\* ------------------------------------------------------------ the mock API
\* { ...a, ...b }: the fields of b win.
Spread(a, b) == b @@ a
\* A key that is set: Empty stands for a key the object does not hold.
HasField(object, key) == key \in DOMAIN object /\ object[key] # Empty

\* array.findIndex(x => x.id === id): the first position, 0 for -1.
FindIndex(array, id) ==
    LET hits == {i \in DOMAIN array : array[i].id = id}
    IN  IF hits = {} THEN 0 ELSE Min(hits)

\* array.splice(index, 1)
Splice(array, index) == RemoveAt(array, index)

\* What a call resolves to, and the arrays it leaves.
Resolved(st, result) == [store |-> st, result |-> result]

\* studentsApi.delete
StudentsDelete(st, id) ==
    LET index == FindIndex(st.students, id)
        isEnrolled == \E i \in DOMAIN st.classes : Includes(st.classes[i].studentIds, id)
    IN  IF index = 0 THEN Resolved(st, FALSE)
        ELSE IF isEnrolled THEN Resolved(st, FALSE)
        ELSE Resolved([st EXCEPT !.students = Splice(st.students, index)], TRUE)

\* coachesApi.delete without the check for classes of the coach.
CoachesDeleteUnchecked(st, id) ==
    LET index == FindIndex(st.coaches, id)
    IN  IF index = 0 THEN Resolved(st, FALSE)
        ELSE Resolved([st EXCEPT !.coaches = Splice(st.coaches, index)], TRUE)

\* coachesApi.delete
CoachesDelete(st, id) ==
    LET index == FindIndex(st.coaches, id)
        isAssigned == \E i \in DOMAIN st.classes : st.classes[i].coachId = id
    IN  IF index = 0 THEN Resolved(st, FALSE)
        ELSE IF isAssigned THEN Resolved(st, FALSE)
        ELSE Resolved([st EXCEPT !.coaches = Splice(st.coaches, index)], TRUE)

\* schedulesToDelete.forEach: each schedule is looked up by its id and spliced.
RECURSIVE SpliceEach(_, _)
SpliceEach(array, toDelete) ==
    IF toDelete = <<>> THEN array
    ELSE LET scheduleIndex == FindIndex(array, Head(toDelete).id)
         IN  SpliceEach(IF scheduleIndex # 0 THEN Splice(array, scheduleIndex) ELSE array,
                        Tail(toDelete))

\* classesApi.delete without the removal of the class's schedules.
ClassesDeleteKeepsSchedules(st, id) ==
    LET index == FindIndex(st.classes, id)
    IN  IF index = 0 THEN Resolved(st, FALSE)
        ELSE Resolved([st EXCEPT !.classes = Splice(st.classes, index)], TRUE)

\* classesApi.delete
ClassesDelete(st, id) ==
    LET index == FindIndex(st.classes, id)
        schedulesToDelete == SelectSeq(st.schedules, LAMBDA x : x.classId = id)
    IN  IF index = 0 THEN Resolved(st, FALSE)
        ELSE Resolved([st EXCEPT !.schedules = SpliceEach(st.schedules, schedulesToDelete),
                                 !.classes = Splice(st.classes, index)], TRUE)

\* Math.max(0, ...array.map(x => x.id)) + 1
RECURSIVE MaxId(_)
MaxId(array) ==
    IF array = <<>> THEN 0
    ELSE LET m == MaxId(Tail(array)) IN IF Head(array).id > m THEN Head(array).id ELSE m
NewId(array) == MaxId(array) + 1

\* { id: newId, ...data }: an id that data holds wins.
NewRecord(array, data) ==
    IF HasField(data, "id") THEN data ELSE Spread(data, [id |-> NewId(array)])

\* coachesApi.create: the result is the new coach.
CoachesCreate(st, coach) ==
    LET newCoach == NewRecord(st.coaches, coach)
    IN  Resolved([st EXCEPT !.coaches = Append(st.coaches, newCoach)], <<newCoach>>)

\* coachesApi.update: <<>> is undefined.
CoachesUpdate(st, id, coachData) ==
    LET index == FindIndex(st.coaches, id)
        updatedCoach == Spread(st.coaches[index], coachData)
    IN  IF index = 0 THEN Resolved(st, <<>>)
        ELSE Resolved([st EXCEPT !.coaches[index] = updatedCoach], <<updatedCoach>>)

\* studentsApi.create
StudentsCreate(st, student) ==
    LET newStudent == NewRecord(st.students, student)
    IN  Resolved([st EXCEPT !.students = Append(st.students, newStudent)], <<newStudent>>)

\* studentsApi.update
StudentsUpdate(st, id, studentData) ==
    LET index == FindIndex(st.students, id)
        updatedStudent == Spread(st.students[index], studentData)
    IN  IF index = 0 THEN Resolved(st, <<>>)
        ELSE Resolved([st EXCEPT !.students[index] = updatedStudent], <<updatedStudent>>)

\* classesApi.create
ClassesCreate(st, classData) ==
    LET newClass == NewRecord(st.classes, classData)
    IN  Resolved([st EXCEPT !.classes = Append(st.classes, newClass)], <<newClass>>)

\* classesApi.update
ClassesUpdate(st, id, classData) ==
    LET index == FindIndex(st.classes, id)
        updatedClass == Spread(st.classes[index], classData)
    IN  IF index = 0 THEN Resolved(st, <<>>)
        ELSE Resolved([st EXCEPT !.classes[index] = updatedClass], <<updatedClass>>)

NoApiEvent == [name |-> "", arg |-> 0, result |-> FALSE]
ApiCalled(name, arg, result) == [name |-> name, arg |-> arg, result |-> result]

\* Ids passed to the delete calls; MissingId is in no array.
MissingId == 3
Ids == {1, 2, MissingId}

\* A call of studentsApi.delete or classesApi.delete made by another page.
studentsApiDelete ==
    \E id \in Ids :
        LET r == StudentsDelete(store, id)
        IN  /\ store' = r.store
            /\ apiEvent' = ApiCalled("studentsApi.delete", id, r.result)
            /\ UNCHANGED <<tz, rcfVars, sfVars, untilCall, coachPage>>

classesApiDelete ==
    \E id \in Ids :
        LET r == ClassesDelete(store, id)
        IN  /\ store' = r.store
            /\ apiEvent' = ApiCalled("classesApi.delete", id, r.result)
            /\ UNCHANGED <<tz, rcfVars, sfVars, untilCall, coachPage>>

\* --------------------------------------------------------------- CoachesPage
\* A coach: its id, its classes list, and whether its required text fields
\* pass validateForm.
Coach(id, classes, filled) == [id |-> id, classes |-> classes, filled |-> filled]

NoCoachPage ==
    [coaches |-> <<>>, classes |-> <<>>, showForm |-> FALSE, currentCoach |-> <<>>,
     isNew |-> TRUE, selectedClasses |-> <<>>, event |-> "", alert |-> ""]

\* fetchData at mount: copies of the API's arrays.
Mounted(st) == [NoCoachPage EXCEPT !.coaches = st.coaches, !.classes = st.classes,
                                   !.event = "fetchData"]

CoachStep(page) ==
    /\ coachPage' = page
    /\ UNCHANGED <<tz, rcfVars, sfVars, untilCall, store, apiEvent>>

handleAddCoach ==
    /\ ~coachPage.showForm
    /\ CoachStep([coachPage EXCEPT !.isNew = TRUE,
                                   !.currentCoach = <<Coach(Empty, <<>>, FALSE)>>,
                                   !.selectedClasses = <<>>, !.showForm = TRUE,
                                   !.event = "handleAddCoach", !.alert = ""])

handleEditCoach ==
    \E i \in DOMAIN coachPage.coaches :
        /\ ~coachPage.showForm
        /\ CoachStep([coachPage EXCEPT !.isNew = FALSE,
                                       !.currentCoach = <<coachPage.coaches[i]>>,
                                       !.selectedClasses = coachPage.coaches[i].classes,
                                       !.showForm = TRUE,
                                       !.event = "handleEditCoach", !.alert = ""])

\* handleInputChange on the required text fields: valid values typed.
handleCoachInputChange ==
    /\ coachPage.showForm
    /\ ~coachPage.currentCoach[1].filled
    /\ CoachStep([coachPage EXCEPT !.currentCoach[1].filled = TRUE,
                                   !.event = "handleInputChange", !.alert = ""])

\* The chip of a class is disabled when the class names this coach as its
\* coachId and is not among the selected classes.
ChipDisabled(page, classItem) ==
    /\ classItem.coachId = page.currentCoach[1].id
    /\ ~Includes(page.selectedClasses, classItem.id)

ClassToggled(selected, cid) ==
    IF Includes(selected, cid) THEN Without(selected, cid)
    ELSE Append(selected, cid)

handleClassToggle ==
    \E i \in DOMAIN coachPage.classes :
        /\ coachPage.showForm
        /\ ~ChipDisabled(coachPage, coachPage.classes[i])
        /\ CoachStep([coachPage EXCEPT
                         !.selectedClasses = ClassToggled(@, coachPage.classes[i].id),
                         !.event = "handleClassToggle", !.alert = ""])

\* Cancel button of the coach dialog.
closeCoachForm ==
    /\ coachPage.showForm
    /\ CoachStep([coachPage EXCEPT !.showForm = FALSE, !.event = "closeForm", !.alert = ""])

\* coaches.map(t => t.id === updatedCoach.id ? updatedCoach : t)
Replaced(array, item) == [i \in DOMAIN array |-> IF array[i].id = item.id THEN item ELSE array[i]]

\* Save button of the coach dialog: validateForm, then coachesApi.create or
\* coachesApi.update with classes: selectedClasses.  Coaches are created up
\* to the id MaxCoaches.
handleCoachFormSubmit ==
    /\ coachPage.showForm
    /\ coachPage.currentCoach # <<>>
    /\ coachPage.isNew => NewId(store.coaches) <= MaxCoaches
    /\ UNCHANGED <<tz, rcfVars, sfVars, untilCall>>
    /\ LET coachData == [coachPage.currentCoach[1] EXCEPT
                             !.classes = coachPage.selectedClasses]
           created == CoachesCreate(store, coachData)
           updated == CoachesUpdate(store, coachData.id, coachData)
       IN  IF ~coachData.filled
           THEN /\ coachPage' = [coachPage EXCEPT !.event = "handleFormSubmit invalid",
                                                  !.alert = ""]
                /\ UNCHANGED <<store, apiEvent>>
           ELSE IF coachPage.isNew
           THEN /\ store' = created.store
                /\ apiEvent' = ApiCalled("coachesApi.create", 0, TRUE)
                /\ coachPage' = [coachPage EXCEPT
                                    !.coaches = Append(@, created.result[1]),
                                    !.showForm = FALSE,
                                    !.event = "handleFormSubmit", !.alert = ""]
           ELSE /\ store' = updated.store
                /\ apiEvent' = ApiCalled("coachesApi.update", coachData.id,
                                         updated.result # <<>>)
                /\ coachPage' = [coachPage EXCEPT
                                    !.coaches = IF updated.result # <<>>
                                                THEN Replaced(@, updated.result[1]) ELSE @,
                                    !.showForm = FALSE,
                                    !.event = "handleFormSubmit", !.alert = ""]

\* Delete command of a grid row: window.confirm, then coachesApi.delete.
handleDeleteCoach ==
    \E i \in DOMAIN coachPage.coaches, confirmed \in BOOLEAN :
        LET id == coachPage.coaches[i].id
            r == CoachesDelete(store, id)
        IN  /\ ~coachPage.showForm
            /\ UNCHANGED <<tz, rcfVars, sfVars, untilCall>>
            /\ IF ~confirmed
               THEN /\ coachPage' = [coachPage EXCEPT !.event = "handleDeleteCoach declined",
                                                      !.alert = ""]
                    /\ UNCHANGED <<store, apiEvent>>
               ELSE /\ store' = r.store
                    /\ apiEvent' = ApiCalled("coachesApi.delete", id, r.result)
                    /\ coachPage' =
                          [coachPage EXCEPT
                             !.coaches = IF r.result
                                         THEN SelectSeq(@, LAMBDA t : t.id # id) ELSE @,
                             !.event = "handleDeleteCoach",
                             !.alert = IF r.result THEN ""
                                       ELSE "This coach is assigned to one or more classes and cannot be deleted."]

\* Contents of the mock data module when the page loads: two students, one
\* of them enrolled; two coaches with a class each, the first also listing
\* the other's class or none; three schedules, two of them of class 1.
Student(id) == [id |-> id]
Class(id, coachId, studentIds) == [id |-> id, coachId |-> coachId, studentIds |-> studentIds]
StoredSchedule(id, cid) == [id |-> id, classId |-> cid]
InitialStores ==
    {[students |-> <<Student(1), Student(2)>>,
      coaches |-> <<Coach(1, c1, TRUE), Coach(2, <<2>>, TRUE)>>,
      classes |-> <<Class(1, 1, <<1>>), Class(2, 2, <<1>>)>>,
      schedules |-> <<StoredSchedule(1, 1), StoredSchedule(2, 2), StoredSchedule(3, 1)>>] :
        c1 \in {<<>>, <<1>>, <<1, 2>>}}
EmptyStore == [students |-> <<>>, coaches |-> <<>>, classes |-> <<>>, schedules |-> <<>>]

StoreIdle == store = EmptyStore /\ apiEvent = NoApiEvent /\ coachPage = NoCoachPage

\* -------------------------------------------------------------- SchedulePage
MaxSchedules == 3

\* classItem.schedule.push(newSchedule) for the class with this id, if any.
ClassSchedulePushed(st, cid, newSchedule) ==
    LET index == FindIndex(st.classes, cid)
    IN  IF index = 0 THEN st
        ELSE [st EXCEPT !.classes[index].schedule = Append(@, newSchedule)]

\* classItem.schedule[scheduleIndex] = { ...updatedSchedule }, if both exist.
ClassScheduleUpdated(st, cid, id, updatedSchedule) ==
    LET index == FindIndex(st.classes, cid)
        scheduleIndex == FindIndex(st.classes[index].schedule, id)
    IN  IF index = 0 THEN st
        ELSE IF scheduleIndex = 0 THEN st
        ELSE [st EXCEPT !.classes[index].schedule[scheduleIndex] = updatedSchedule]

\* schedulesApi.create: { id: newId, ...scheduleData }, pushed to the array
\* and to the schedule list of its class.
SchedulesCreate(st, scheduleData) ==
    LET newSchedule == NewRecord(st.schedules, scheduleData)
        pushed == [st EXCEPT !.schedules = Append(st.schedules, newSchedule)]
    IN  Resolved(ClassSchedulePushed(pushed, scheduleData.classId, newSchedule),
                 <<newSchedule>>)

\* schedulesApi.update: <<>> is undefined.
SchedulesUpdate(st, id, scheduleData) ==
    LET index == FindIndex(st.schedules, id)
        updatedSchedule == Spread(st.schedules[index], scheduleData)
        stored == [st EXCEPT !.schedules[index] = updatedSchedule]
    IN  IF index = 0 THEN Resolved(st, <<>>)
        ELSE Resolved(ClassScheduleUpdated(stored, updatedSchedule.classId, id,
                                           updatedSchedule),
                      <<updatedSchedule>>)

\* schedulesApi.delete without the test of index === -1: splice(-1, 1) removes
\* the last record.
SchedulesDeleteUnchecked(st, id) ==
    LET index == FindIndex(st.schedules, id)
    IN  IF index = 0
        THEN Resolved([st EXCEPT !.schedules = SubSeq(st.schedules, 1, Len(st.schedules) - 1)],
                      TRUE)
        ELSE Resolved([st EXCEPT !.schedules = Splice(st.schedules, index)], TRUE)

\* schedulesApi.delete
SchedulesDelete(st, id) ==
    LET index == FindIndex(st.schedules, id)
    IN  IF index = 0 THEN Resolved(st, FALSE)
        ELSE Resolved([st EXCEPT !.schedules = Splice(st.schedules, index)], TRUE)

\* The page's classes state holds the API's class objects.
getClassName(st, cid) ==
    LET index == FindIndex(st.classes, cid)
    IN  IF cid = Empty \/ index = 0 THEN "Unknown Class" ELSE st.classes[index].name

getCoachId(st, cid) ==
    LET index == FindIndex(st.classes, cid)
    IN  IF cid = Empty \/ index = 0 THEN Empty
        ELSE IF Truthy(st.classes[index].coachId) THEN st.classes[index].coachId
        ELSE Empty

\* Title field (handleInputChange, name title).
TitleInputs == {"Kids"}
TitleChange(fd, value) == [fd EXCEPT !.title = value]
titleChange == \E v \in TitleInputs : SfStep("handleInputChange", "title", TitleChange(formData, v))

\* Schedules are created up to the id MaxSchedules, and while the schedule
\* list of every class (which schedulesApi.delete never shortens) holds fewer
\* than MaxSchedules.
CanCreate(st) ==
    /\ NewId(st.schedules) <= MaxSchedules
    /\ \A i \in DOMAIN st.classes : Len(st.classes[i].schedule) < MaxSchedules

\* A handler of the page suspended at an await: its name, the state its
\* closure captured, and what the awaited call resolves to.  The mock API
\* returns resolved promises, so the handler resumes in a microtask, before
\* the page handles another event: events wait while pending holds a handler.
Suspended(name, result) ==
    <<[name |-> name, schedules |-> schedules, isNew |-> isNew, result |-> result]>>

\* Save button of the appointment dialog, up to the await of the API call
\* (which has changed the API's arrays when it returns its promise).
handleFormSubmit ==
    \E now \in NowInputs :
        LET validEndDate == IF formData.endDate = Empty THEN now ELSE formData.endDate
            coachId == getCoachId(store, formData.classId)
            submitted == Spread(formData,
                                [endDate |-> validEndDate, coachId |-> coachId,
                                 title |-> IF formData.title # "" THEN formData.title
                                           ELSE getClassName(store, formData.classId)])
            r == IF isNew THEN SchedulesCreate(store, submitted)
                 ELSE SchedulesUpdate(store, formData.id, submitted)
        IN  /\ showForm
            /\ pending = <<>>
            /\ isNew => CanCreate(store)
            /\ IF formData.title = "" /\ ~Truthy(formData.classId)
               THEN /\ sfEvent' = [name |-> "handleFormSubmit",
                                   arg |-> "Please fill in all required fields"]
                    /\ formSubmitting' = FALSE
                    /\ UNCHANGED <<store, apiEvent, pending>>
               ELSE /\ store' = r.store
                    /\ apiEvent' = IF isNew
                                   THEN ApiCalled("schedulesApi.create", r.result[1].id, TRUE)
                                   ELSE ApiCalled("schedulesApi.update", formData.id,
                                                  r.result # <<>>)
                    /\ formSubmitting' = TRUE
                    /\ pending' = Suspended("handleFormSubmit", r.result)
                    /\ sfEvent' = [name |-> "handleFormSubmit", arg |-> "await"]
            /\ UNCHANGED <<tz, rcfVars, schedules, formData, isNew, showForm, untilCall,
                           coachPage>>

\* handleFormSubmit resumed without its finally block.
formSubmitResumedNoFinally ==
    /\ pending # <<>>
    /\ pending[1].name = "handleFormSubmit"
    /\ schedules' = IF pending[1].isNew THEN Append(pending[1].schedules, pending[1].result[1])
                    ELSE IF pending[1].result # <<>>
                    THEN Replaced(pending[1].schedules, pending[1].result[1])
                    ELSE schedules
    /\ showForm' = FALSE
    /\ pending' = <<>>
    /\ sfEvent' = [name |-> "handleFormSubmit", arg |-> ""]
    /\ UNCHANGED <<tz, rcfVars, formData, isNew, formSubmitting, auxVars>>

\* handleFormSubmit after its await: setSchedules from the schedules its
\* closure captured, setShowForm(false), and finally setFormSubmitting(false).
formSubmitResumed ==
    /\ pending # <<>>
    /\ pending[1].name = "handleFormSubmit"
    /\ schedules' = IF pending[1].isNew THEN Append(pending[1].schedules, pending[1].result[1])
                    ELSE IF pending[1].result # <<>>
                    THEN Replaced(pending[1].schedules, pending[1].result[1])
                    ELSE schedules
    /\ showForm' = FALSE
    /\ formSubmitting' = FALSE
    /\ pending' = <<>>
    /\ sfEvent' = [name |-> "handleFormSubmit", arg |-> ""]
    /\ UNCHANGED <<tz, rcfVars, formData, isNew, auxVars>>

\* !window.confirm(...) where the code asks.
DeclinesNever(asked, confirmed) == FALSE

Declines(asked, confirmed) == asked /\ ~confirmed

\* commitChanges works on r: updatedSchedules, the API's arrays, its latest
\* call, and whether the handler has returned early.
CommitAdded(r, added) ==
    IF added = <<>> THEN r
    ELSE LET c == SchedulesCreate(r.store, added[1])
         IN  [r EXCEPT !.store = c.store,
                       !.call = ApiCalled("schedulesApi.create", c.result[1].id, TRUE),
                       !.schedules = Append(r.schedules, c.result[1])]

CommitChanged(r, changed, confirmed) ==
    IF changed = <<>> THEN r
    ELSE LET appointmentIndex == FindIndex(r.schedules, changed[1].id)
             originalAppointment == r.schedules[appointmentIndex]
             changesObj == changed[1].changes
             isRecurring == NonEmpty(originalAppointment.rRule)
             updatedAppointment == Spread(originalAppointment, changesObj)
             u == SchedulesUpdate(r.store, updatedAppointment.id, updatedAppointment)
         IN  IF appointmentIndex = 0 THEN r
             ELSE IF Declines(isRecurring /\ (\/ HasField(changesObj, "startDate")
                                              \/ HasField(changesObj, "endDate")),
                              confirmed)
             THEN [r EXCEPT !.returned = TRUE]
             ELSE [r EXCEPT !.store = u.store,
                            !.call = ApiCalled("schedulesApi.update", updatedAppointment.id,
                                               u.result # <<>>),
                            !.schedules = IF u.result # <<>>
                                          THEN [r.schedules EXCEPT ![appointmentIndex] =
                                                                       updatedAppointment]
                                          ELSE r.schedules]

\* appointmentToDelete is looked up in the schedules state.
CommitDeleted(r, state, deleted, confirmed) ==
    IF deleted = Empty \/ r.returned THEN r
    ELSE LET i == FindIndex(state, deleted)
             d == SchedulesDelete(r.store, deleted)
         IN  IF Declines(i # 0 /\ NonEmpty(state[i].rRule), confirmed)
             THEN [r EXCEPT !.returned = TRUE]
             ELSE [r EXCEPT !.store = d.store,
                            !.call = ApiCalled("schedulesApi.delete", deleted, d.result),
                            !.schedules = IF d.result
                                          THEN SelectSeq(r.schedules, LAMBDA a : a.id # deleted)
                                          ELSE r.schedules]

CommitChanges(state, st, call, changeSet, confirmed) ==
    LET r == CommitDeleted(
                 CommitChanged(
                     CommitAdded([schedules |-> state, store |-> st, call |-> call,
                                  returned |-> FALSE],
                                 changeSet.added),
                     changeSet.changed, confirmed),
                 state, changeSet.deleted, confirmed)
    IN  [r EXCEPT !.schedules = IF r.returned THEN state ELSE r.schedules]

\* What EditingState commits: an appointment added, one changed, one deleted,
\* or one changed together with one added (an occurrence edited on its own).
\* <<>> is a key the ChangeSet does not hold, Empty is deleted === undefined.
ChangeSet(added, changed, deleted) == [added |-> added, changed |-> changed, deleted |-> deleted]
AddedInputs ==
    {[classId |-> 1, startDate |-> 17 * 24 + 10, endDate |-> 17 * 24 + 11,
      title |-> "Kids", rRule |-> Undefined]}
ScheduleIds == 1 .. MaxSchedules
ChangedInputs ==
    {[id |-> i, changes |-> c] :
        i \in ScheduleIds,
        c \in {[startDate |-> 17 * 24 + 10, endDate |-> 17 * 24 + 11], [title |-> "Kids"]}}
ChangeSets ==
    {ChangeSet(<<a>>, <<>>, Empty) : a \in AddedInputs}
    \cup {ChangeSet(<<>>, <<c>>, Empty) : c \in ChangedInputs}
    \cup {ChangeSet(<<>>, <<>>, d) : d \in ScheduleIds}
    \cup {ChangeSet(<<a>>, <<c>>, Empty) : a \in AddedInputs, c \in ChangedInputs}

\* onCommitChanges of the scheduler, and the answer to window.confirm.  The
\* appointment dialog is modal: the scheduler is used while it is closed.
commitChanges ==
    \E changeSet \in ChangeSets, confirmed \in BOOLEAN :
        LET r == CommitChanges(schedules, store, apiEvent, changeSet, confirmed)
        IN  /\ ~showForm
            /\ pending = <<>>
            /\ changeSet.added # <<>> => CanCreate(store)
            /\ schedules' = r.schedules
            /\ store' = r.store
            /\ apiEvent' = r.call
            /\ sfEvent' = [name |-> "commitChanges",
                           arg |-> [changeSet |-> changeSet, confirmed |-> confirmed]]
            /\ UNCHANGED <<tz, rcfVars, formData, isNew, showForm, sfAsync, untilCall,
                           coachPage>>

\* The API's arrays when the schedule page mounts: two classes, a single
\* session of the first and a weekly series of the second.
PageClasses == {1, 2}
PageClass(id, coachId, schedule) ==
    [id |-> id, name |-> ClassName(id), coachId |-> coachId, studentIds |-> <<>>,
     schedule |-> schedule]
PageSchedule(id, cid, text) ==
    [id |-> id, classId |-> cid, coachId |-> cid, startDate |-> 16 * 24 + 10,
     endDate |-> 16 * 24 + 11, title |-> ClassName(cid), rRule |-> text]
WeeklySeries == <<FreqPart("WEEKLY"), NumPart("INTERVAL", 1), ByDayPart(<<"WE">>)>>
PageStore ==
    [students |-> <<>>, coaches |-> <<>>,
     classes |-> <<PageClass(1, 1, <<PageSchedule(1, 1, Undefined)>>),
                   PageClass(2, 2, <<PageSchedule(2, 2, WeeklySeries)>>)>>,
     schedules |-> <<PageSchedule(1, 1, Undefined), PageSchedule(2, 2, WeeklySeries)>>]

\* ------------------------------------------------------ calls of the mock API
MaxRecords == 3

StudentsCalls == {"studentsApi.create", "studentsApi.update", "studentsApi.delete"}
CoachesCalls == {"coachesApi.create", "coachesApi.update", "coachesApi.delete"}
ClassesCalls == {"classesApi.create", "classesApi.update", "classesApi.delete"}
SchedulesCalls == {"schedulesApi.create", "schedulesApi.update", "schedulesApi.delete"}
ApiObjects == {StudentsCalls, CoachesCalls, ClassesCalls, SchedulesCalls}

\* One call of the API by any caller.  A behaviour calls the methods of one
\* of the four API objects; the arrays of the others change only through it.
ApiStep(name, arg, r, result) ==
    /\ apiEvent.name = "" \/ \E calls \in ApiObjects : name \in calls /\ apiEvent.name \in calls
    /\ store' = r.store
    /\ apiEvent' = ApiCalled(name, arg, result)
    /\ UNCHANGED <<tz, rcfVars, sfVars, untilCall, coachPage>>

\* Records are created up to the id MaxRecords and the length MaxRecords.
CanAdd(array) == NewId(array) <= MaxRecords /\ Len(array) < MaxRecords

\* Partial<T> arguments of update: a new id, or a new value of one field.
PartialOf(change) == {[id |-> k] : k \in Ids} \cup {change}

callStudentsCreate ==
    LET r == StudentsCreate(store, [firstName |-> "Ann"])
    IN  CanAdd(store.students) /\ ApiStep("studentsApi.create", r.result[1].id, r, TRUE)
callStudentsUpdate ==
    \E id \in Ids, studentData \in PartialOf([firstName |-> "Bo"]) :
        LET r == StudentsUpdate(store, id, studentData)
        IN  ApiStep("studentsApi.update", id, r, r.result # <<>>)
callStudentsDelete ==
    \E id \in Ids :
        LET r == StudentsDelete(store, id)
        IN  ApiStep("studentsApi.delete", id, r, r.result)

callCoachesCreate ==
    LET r == CoachesCreate(store, Coach(Empty, <<>>, TRUE))
    IN  CanAdd(store.coaches) /\ ApiStep("coachesApi.create", r.result[1].id, r, TRUE)
callCoachesUpdate ==
    \E id \in Ids, coachData \in PartialOf([classes |-> <<>>]) :
        LET r == CoachesUpdate(store, id, coachData)
        IN  ApiStep("coachesApi.update", id, r, r.result # <<>>)
callCoachesDelete ==
    \E id \in Ids :
        LET r == CoachesDelete(store, id)
        IN  ApiStep("coachesApi.delete", id, r, r.result)

callClassesCreate ==
    LET r == ClassesCreate(store, PageClass(Empty, 1, <<>>))
    IN  CanAdd(store.classes) /\ ApiStep("classesApi.create", r.result[1].id, r, TRUE)
callClassesUpdate ==
    \E id \in Ids, classData \in PartialOf([coachId |-> 1]) :
        LET r == ClassesUpdate(store, id, classData)
        IN  ApiStep("classesApi.update", id, r, r.result # <<>>)
callClassesDelete ==
    \E id \in Ids :
        LET r == ClassesDelete(store, id)
        IN  ApiStep("classesApi.delete", id, r, r.result)

callSchedulesCreate ==
    LET r == SchedulesCreate(store, PageSchedule(Empty, 1, Undefined))
    IN  /\ CanAdd(store.schedules) /\ CanCreate(store)
        /\ ApiStep("schedulesApi.create", r.result[1].id, r, TRUE)
callSchedulesUpdate ==
    \E id \in Ids, scheduleData \in PartialOf([classId |-> 1]) :
        LET r == SchedulesUpdate(store, id, scheduleData)
        IN  ApiStep("schedulesApi.update", id, r, r.result # <<>>)
callSchedulesDelete ==
    \E id \in Ids :
        LET r == SchedulesDelete(store, id)
        IN  ApiStep("schedulesApi.delete", id, r, r.result)

\* The arrays when the calls start: student 1 is enrolled in class 1, each
\* coach has a class, each class a schedule.
ApiStore ==
    [PageStore EXCEPT !.students = <<Student(1), Student(2)>>,
                      !.coaches = <<Coach(1, <<1>>, TRUE), Coach(2, <<2>>, TRUE)>>,
                      !.classes[1].studentIds = <<1>>]

\* ----------------------------------------------------------- specifications
\* RecurringClassForm on its own.
AuxInit == untilCall = NoUntilCall /\ StoreIdle
Init == tz \in TimeZones /\ RcfInit /\ SfInit /\ schedules = <<>> /\ AuxInit
Next == RcfNext
Spec == Init /\ [][Next]_vars

\* The appointment form of the schedule page.
InitForm ==
    /\ tz \in TimeZones
    /\ RcfInit
    /\ SfInit
    /\ schedules \in AppointmentLists
    /\ AuxInit
SpecForm == InitForm /\ [][SfNext]_vars

\* The recurrence and end controls of a new appointment's form, given any
\* input a number field can deliver.
AnyIntervalInputs == {Empty, 0, -1, MaxInterval}
AnyCountInputs == {Empty, -1, MaxCount}
SfNextAnyInput ==
    \/ handleOpenFormNew
    \/ repeatChangeOf(RepeatInputs \ {"custom"})
    \/ dailyIntervalChangeOf(AnyIntervalInputs)
    \/ weeklyIntervalChangeOf(AnyIntervalInputs)
    \/ dayChipClickOf({"TU"})
    \/ monthDayChange
    \/ monthlyIntervalChangeOf(AnyIntervalInputs)
    \/ yearlyIntervalChangeOf(AnyIntervalInputs)
    \/ endTypeChange
    \/ endCountChangeOf(AnyCountInputs)
    \/ untilDateChange
InitAnyInput == tz = 0 /\ RcfInit /\ SfInit /\ schedules = <<>> /\ AuxInit
SpecAnyInput == InitAnyInput /\ [][SfNextAnyInput]_vars

\* The mock API and the coaches page.
InitStore ==
    /\ tz = 0
    /\ RcfInit
    /\ SfInit
    /\ schedules = <<>>
    /\ untilCall = NoUntilCall
    /\ store \in InitialStores
    /\ apiEvent = NoApiEvent
    /\ coachPage = Mounted(store)
NextStore ==
    \/ studentsApiDelete
    \/ classesApiDelete
    \/ handleAddCoach
    \/ handleEditCoach
    \/ handleCoachInputChange
    \/ handleClassToggle
    \/ closeCoachForm
    \/ handleCoachFormSubmit
    \/ handleDeleteCoach
SpecStore == InitStore /\ [][NextStore]_vars

\* The schedule page: the appointment dialog for a new schedule.
InitPage ==
    /\ tz = 0
    /\ RcfInit
    /\ SfInit
    /\ untilCall = NoUntilCall
    /\ store = PageStore
    /\ schedules = store.schedules
    /\ apiEvent = NoApiEvent
    /\ coachPage = NoCoachPage
NextPage ==
    \/ handleOpenFormNew
    \/ sfClassChangeOf(PageClasses)
    \/ titleChange
    \/ closeForm
    \/ handleFormSubmit
    \/ formSubmitResumed
SpecPage == InitPage /\ [][NextPage]_vars

\* The schedule page while the dialog stays closed: the scheduler's
\* onCommitChanges.
NextScheduler == commitChanges
SpecScheduler == InitPage /\ [][NextScheduler]_vars

\* The mock API called directly.
InitApi ==
    /\ tz = 0
    /\ RcfInit
    /\ SfInit
    /\ schedules = <<>>
    /\ untilCall = NoUntilCall
    /\ store = ApiStore
    /\ apiEvent = NoApiEvent
    /\ coachPage = NoCoachPage
NextApi ==
    \/ callStudentsCreate
    \/ callStudentsUpdate
    \/ callStudentsDelete
    \/ callCoachesCreate
    \/ callCoachesUpdate
    \/ callCoachesDelete
    \/ callClassesCreate
    \/ callClassesUpdate
    \/ callClassesDelete
    \/ callSchedulesCreate
    \/ callSchedulesUpdate
    \/ callSchedulesDelete
SpecApi == InitApi /\ [][NextApi]_vars

\* Submissions of both forms: RecurringClassForm filled in for a class and
\* the first dates, the appointment dialog of a new schedule.  The page's
\* handler resumes in a microtask; onSave's promise is taken to settle.
NextSubmit ==
    \/ \E v \in Classes : handleClassChange(v)
    \/ setStartDate(Min(StartDateInputs))
    \/ setEndDate(Min(EndDateInputs))
    \/ handleSubmit
    \/ onSaveResolved
    \/ onSaveRejected
    \/ handleOpenFormNew
    \/ sfClassChangeOf(Classes)
    \/ handleFormSubmit
    \/ formSubmitResumed
SpecSubmit ==
    /\ InitPage
    /\ [][NextSubmit]_vars
    /\ WF_vars(formSubmitResumed)
    /\ WF_vars(onSaveResolved \/ onSaveRejected)

\* The appointment dialog opened for a schedule of the page's list: one
\* without a rule, a weekly series ending after MaxCount sessions, and one
\* ending on 2024-02-10.
EditSchedules ==
    <<PageSchedule(1, 1, Undefined),
      PageSchedule(2, 2, Append(WeeklySeries, NumPart("COUNT", MaxCount))),
      PageSchedule(3, 1, Append(WeeklySeries, UntilPart(YMD(40), "T000000Z")))>>
EditStore ==
    [PageStore EXCEPT !.schedules = EditSchedules,
                      !.classes[1].schedule = <<EditSchedules[1], EditSchedules[3]>>,
                      !.classes[2].schedule = <<EditSchedules[2]>>]
InitEdit ==
    /\ tz = 0
    /\ RcfInit
    /\ SfInit
    /\ untilCall = NoUntilCall
    /\ store = EditStore
    /\ schedules = store.schedules
    /\ apiEvent = NoApiEvent
    /\ coachPage = NoCoachPage
NextEdit ==
    \/ handleOpenFormEdit
    \/ sfClassChangeOf(PageClasses)
    \/ titleChange
    \/ closeForm
    \/ handleFormSubmit
    \/ formSubmitResumed
SpecEdit == InitEdit /\ [][NextEdit]_vars

\* The appointment dialog of a new schedule with its Repeat selector and the
\* interval fields, up to the Save button.
NextRepeat ==
    \/ handleOpenFormNew
    \/ sfClassChangeOf(Classes)
    \/ repeatChangeOf({"none", "daily", "weekly"})
    \/ dailyIntervalChange
    \/ weeklyIntervalChange
    \/ handleFormSubmit
    \/ formSubmitResumed
SpecRepeat == InitPage /\ [][NextRepeat]_vars

\* parseUntilDate on its own.
InitUntil ==
    /\ tz \in TimeZones
    /\ RcfInit
    /\ SfInit
    /\ schedules = <<>>
    /\ untilCall \in [text : UntilTexts, now : UntilNows, result : {Empty}]
    /\ StoreIdle
NextUntil == callParseUntilDate
SpecUntil == InitUntil /\ [][NextUntil]_vars

\* ------------------------------------------------------------------ claims
\* Local calendar day and weekday of an epoch value, as the user sees it.
LocalDay(t) == (t + tz) \div 24
LocalWeekday(t) == Weekday(LocalDay(t))

\* handleSubmit has passed validation, built a rule and called onSave.
Expanded == rcfEvent = "handleSubmit" /\ onSaveArg # <<>>
Saved == onSaveArg[1]
Captured == closure[1]

\* C1: no generated occurrence starts before the rule's start (start date at
\* start time), nor after the rule's end condition: the end of the end date
\* when no count is given, the count limit when one is.
C1_WithinStartAndEnd ==
    Expanded =>
        /\ \A i \in DOMAIN Saved :
              /\ Saved[i].startDate >= Captured.startDate * 24 + Captured.startTime - tz
              /\ Captured.count = Empty => LocalDay(Saved[i].startDate) <= Captured.endDate
        /\ Captured.count # Empty => Len(Saved) <= Captured.count

\* A daily or weekly expansion cut off by the end date.
C1_Witness ==
    /\ Expanded
    /\ Captured.count = Empty
    /\ Len(Saved) >= 3
    /\ Captured.endDate = 12

\* C2: every generated schedule lasts end time minus start time.
C2_ConstantDuration ==
    Expanded =>
        \A i \in DOMAIN Saved :
            Saved[i].endDate - Saved[i].startDate = Captured.endTime - Captured.startTime

\* Several schedules generated from a form whose end time precedes its start time.
C2_Witness ==
    /\ Expanded
    /\ Len(Saved) >= 2
    /\ Captured.endTime < Captured.startTime

\* C3 as stated: with a count and an end date, at most count occurrences and
\* none starting after the end date.
C3_TighterEndCondition ==
    (Expanded /\ Captured.count # Empty /\ Captured.endDate # Empty) =>
        /\ Len(Saved) <= Captured.count
        /\ \A i \in DOMAIN Saved : LocalDay(Saved[i].startDate) <= Captured.endDate

\* C3 amended: with a count and an end date, the count alone ends the
\* expansion: the rule carries no until, and exactly count occurrences come out.
C3_CountReplacesEndDate ==
    (Expanded /\ Captured.count # Empty /\ Captured.endDate # Empty) =>
        /\ rule[1].until = NoUntil
        /\ rule[1].count = Captured.count
        /\ Len(Saved) = Captured.count

\* A count that carries the series past the end date.
C3_Witness ==
    /\ Expanded
    /\ Captured.count # Empty
    /\ Len(Saved) >= 2
    /\ \E i \in DOMAIN Saved : LocalDay(Saved[i].startDate) > Captured.endDate

\* C4: occurrence starts are strictly ascending; a WEEKLY occurrence falls on
\* a selected weekday; consecutive occurrences lie in the same recurrence
\* period or in periods a multiple of interval apart.
C4_AscendingAndOnRule ==
    Expanded =>
        /\ \A i \in DOMAIN Saved : i > 1 => Saved[i - 1].startDate < Saved[i].startDate
        /\ Captured.frequency = "WEEKLY" =>
              \A i \in DOMAIN Saved :
                  Includes(Captured.weekdays, LocalWeekday(Saved[i].startDate))
        /\ Captured.frequency = "DAILY" =>
              \A i \in DOMAIN Saved : i > 1 =>
                  Saved[i].startDate - Saved[i - 1].startDate = 24 * Captured.interval
        /\ Captured.frequency = "WEEKLY" =>
              \A i \in DOMAIN Saved : i > 1 =>
                  (LocalDay(Saved[i].startDate) \div 7)
                    - (LocalDay(Saved[i - 1].startDate) \div 7) \in {0, Captured.interval}
        /\ Captured.frequency = "MONTHLY" =>
              \A i \in DOMAIN Saved : i > 1 =>
                  LET months == MonthOf(LocalDay(Saved[i].startDate))
                                  - MonthOf(LocalDay(Saved[i - 1].startDate))
                  IN  months > 0 /\ months % Captured.interval = 0

\* A weekly series of at least two sessions.
C4_Witness ==
    /\ Expanded
    /\ Captured.frequency = "WEEKLY"
    /\ Len(Saved) >= 2

\* C10: a submission with a required field missing, or WEEKLY with no weekday,
\* raises the validation alert, calls no onSave, builds no rule and leaves the
\* form state and isLoading as they were.
C10_RejectsBeforeExpansion ==
    [][(/\ rcfEvent' = "handleSubmit"
        /\ \/ classId = Empty
           \/ startDate = Empty
           \/ endDate = Empty
           \/ startTime = Empty
           \/ endTime = Empty
           \/ (frequency = "WEEKLY" /\ weekdays = <<>>))
       => (/\ alertMsg' = "Please fill in all required fields"
           /\ onSaveArg' = <<>>
           /\ rule' = <<>>
           /\ rcfForm' = rcfForm
           /\ isLoading' = FALSE)]_vars

\* A complete weekly form with every weekday unticked was submitted and refused.
C10_Witness ==
    /\ rcfEvent = "handleSubmit"
    /\ alertMsg # ""
    /\ classId # Empty /\ startDate # Empty /\ endDate # Empty
    /\ startTime # Empty /\ endTime # Empty
    /\ frequency = "WEEKLY" /\ weekdays = <<>>

\* ------------------------------------------- claims on the appointment form
\* The chip labels, Monday first.
DayCodes == <<"MO", "TU", "WE", "TH", "FR", "SA", "SU">>

\* The handlers that write formData.rRule from the recurrence controls.
EncoderEvents ==
    {"dailyIntervalChange", "weeklyIntervalChange", "dayChipClick", "monthDayChange",
     "monthlyIntervalChange", "yearlyIntervalChange", "endTypeChange",
     "endCountChange", "untilDateChange"}

\* What handleOpenForm reads back from the rule text the form holds.
Reparsed ==
    OpenFormData([id |-> formData.id, classId |-> formData.classId,
                  startDate |-> formData.startDate, endDate |-> formData.endDate,
                  title |-> formData.title, rRule |-> formData.rRule],
                 formData.startDate)

\* The values the recurrence controls display (formData.x || default).
ShownInterval == NumOr(formData.interval, 1)
ShownDays == DaysOr(formData.selectedDays)
ShownMonthDay == NumOr(formData.monthDay, GetDate(formData.startDate))
ShownEndType == IF formData.endType = "" THEN "never" ELSE formData.endType
ShownEndCount == NumOr(formData.endCount, 10)

\* C5: after a recurrence or end-condition control has encoded the rule,
\* parsing the rule text as handleOpenForm does gives back the recurrence
\* type, interval, weekdays, month day, end type and end count or until date
\* that the form shows.
C5_EncodeThenParse ==
    (showForm /\ sfEvent.name \in EncoderEvents /\ ~OpenThrows(formData.rRule)) =>
        /\ Reparsed.recurrenceType = formData.recurrenceType
        /\ Reparsed.interval = ShownInterval
        /\ formData.recurrenceType = "weekly" => Reparsed.selectedDays = Some(ShownDays)
        /\ formData.recurrenceType = "monthly" => Reparsed.monthDay = ShownMonthDay
        /\ Reparsed.endType = ShownEndType
        /\ ShownEndType = "count" => Reparsed.endCount = ShownEndCount
        /\ ShownEndType = "until" => UTCDay(Reparsed.endDate) = UTCDay(formData.endDate)

\* Typing the parsed interval into the interval control of the parsed type,
\* then choosing the parsed end type in the Ends group.
EncodeRecurrence(fd) ==
    IF fd.recurrenceType = "daily" THEN DailyIntervalChange(fd, fd.interval)
    ELSE IF fd.recurrenceType = "weekly" THEN WeeklyIntervalChange(fd, fd.interval)
    ELSE IF fd.recurrenceType = "monthly" THEN MonthlyIntervalChange(fd, fd.interval)
    ELSE IF fd.recurrenceType = "yearly" THEN YearlyIntervalChange(fd, fd.interval)
    ELSE fd
Reencode(fd) == EndTypeChange(EncodeRecurrence(fd), fd.endType)

\* handleOpenForm has just parsed an appointment with a canonical rule.
OpenedCanonical ==
    /\ sfEvent = [name |-> "handleOpenForm", arg |-> "edit"]
    /\ formData.rRule \in CanonicalRules

TypeSwitched ==
    /\ sfEvent.name = "repeatChange"
    /\ sfEvent.arg \in {"daily", "weekly", "monthly", "yearly"}
    /\ formData.recurrenceType \in {"daily", "weekly", "monthly", "yearly"}
    /\ sfEvent.arg # formData.recurrenceType

\* C7: after the Repeat selector has switched the type, the rule held by the
\* form carries no BYMONTHDAY of a monthly rule, no BYDAY of a weekly rule and
\* no INTERVAL of the previous type.
C7_SwitchClearsFields ==
    TypeSwitched =>
        /\ sfEvent.arg = "monthly" => ~HasKey(formData.rRule, "BYMONTHDAY")
        /\ sfEvent.arg = "weekly" => ~HasKey(formData.rRule, "BYDAY")
        /\ ~HasKey(formData.rRule, "INTERVAL")

\* C8: the selected weekdays of the appointment form are never empty, removing
\* the only selected weekday leaves Monday alone, and no BYDAY list of the
\* rule text is empty.
C8_WeekdaysNeverEmpty ==
    /\ formData.selectedDays # Undefined => Len(formData.selectedDays[1]) > 0
    /\ (sfEvent.name = "dayChipClick" /\ sfEvent.arg \in {"last off", "only Monday off"})
          => formData.selectedDays = Some(<<"MO">>)
    /\ \A i \in DOMAIN formData.rRule :
          formData.rRule[i].k = "BYDAY" => formData.rRule[i].l # <<>>

\* The only selected weekday, not Monday, was switched off.
C8_Witness ==
    /\ sfEvent = [name |-> "dayChipClick", arg |-> "last off"]
    /\ formData.selectedDays = Some(<<"MO">>)
    /\ HasKey(formData.rRule, "BYDAY")

\* The chip code of the weekday the appointment starts on.
AnchorDay == DayCodes[LocalWeekday(formData.startDate) + 1]

\* C9 as stated: when the last weekday is switched off, the set defaults to the
\* weekday of the start date, so the rule includes that weekday.
C9_DefaultsToAnchorWeekday ==
    (sfEvent.name = "dayChipClick" /\ sfEvent.arg \in {"last off", "only Monday off"})
        => /\ Includes(formData.selectedDays[1], AnchorDay)
           /\ \E i \in DOMAIN formData.rRule :
                 formData.rRule[i].k = "BYDAY" /\ Includes(formData.rRule[i].l, AnchorDay)

\* C9 amended: when the last weekday is switched off, the rule is written with
\* BYDAY=MO alone, whatever the weekday of the start date.
C9_DefaultsToMonday ==
    (sfEvent.name = "dayChipClick" /\ sfEvent.arg \in {"last off", "only Monday off"})
        => /\ formData.rRule = <<FreqPart("WEEKLY"), NumPart("INTERVAL", ShownInterval),
                                 ByDayPart(<<"MO">>)>>
           /\ (AnchorDay # "MO" => ~Includes(formData.selectedDays[1], AnchorDay))

\* The last weekday went off in a form whose appointment starts on a Wednesday.
C9_Witness ==
    /\ sfEvent.name = "dayChipClick"
    /\ sfEvent.arg = "last off"
    /\ AnchorDay = "WE"
    /\ ByDayMatch(formData.rRule) # 0

\* ------------------------------------------------- claims on parseUntilDate
\* The UNTIL token of the text handed to parseUntilDate, if it is well formed.
CalledWellFormed ==
    {i \in DOMAIN untilCall.text : untilCall.text[i] \in WellFormedUntil}

Tokens(text, key) == {i \in DOMAIN text : text[i].k = key}

\* C12: the rule text of a new appointment's form never holds a COUNT token
\* together with an UNTIL token, nor two COUNT or two UNTIL tokens.
C12_OneEndCondition ==
    (showForm /\ isNew) =>
        Cardinality(Tokens(formData.rRule, "COUNT"))
            + Cardinality(Tokens(formData.rRule, "UNTIL")) <= 1

\* C13: the interval held by the appointment form, and every INTERVAL token
\* of its rule text, is at least 1.
C13_IntervalPositive ==
    showForm =>
        /\ formData.interval # Empty => formData.interval >= 1
        /\ \A i \in Tokens(formData.rRule, "INTERVAL") : formData.rRule[i].n >= 1

\* ------------------------------------------------ claims on bulk creation
\* C14: onSave receives one schedule per occurrence of the rule, in the
\* order of the occurrences, each with the form's class id and all with the
\* rule that was expanded.
C14_OneRecordPerOccurrence ==
    Expanded =>
        LET occurrences == RuleAll(rule[1])
        IN  /\ Len(Saved) = Len(occurrences)
            /\ \A i \in DOMAIN Saved :
                  /\ Saved[i].startDate = occurrences[i]
                  /\ Saved[i].classId = Captured.classId
                  /\ Saved[i].rRule = rule[1]
                  /\ Saved[i].rRule = Saved[1].rRule

\* A count-limited series of MaxCount sessions was handed to onSave.
C14_Witness ==
    /\ Expanded
    /\ Captured.count = MaxCount
    /\ Len(Saved) = MaxCount
    /\ Saved[1].startDate < Saved[MaxCount].startDate

\* The members of a set of numbers in ascending order.
RECURSIVE Ascending(_)
Ascending(S) == IF S = {} THEN <<>> ELSE <<Min(S)>> \o Ascending(S \ {Min(S)})

\* The selected weekdays in calendar order, and the place of a weekday in it.
SelectedInOrder == Ascending({Captured.weekdays[i] : i \in DOMAIN Captured.weekdays})
PlaceOf(d) == CHOOSE p \in DOMAIN SelectedInOrder : SelectedInOrder[p] = d

\* C15: a weekly rule with a count n whose start date falls on a selected
\* weekday yields exactly n sessions, the first on the start date, the
\* following ones on the selected weekdays in calendar order, cyclically.
C15_CountCyclesWeekdays ==
    (/\ Expanded
     /\ Captured.frequency = "WEEKLY"
     /\ Captured.count # Empty /\ Captured.count > 0
     /\ Includes(Captured.weekdays, Weekday(Captured.startDate)))
    => /\ Len(Saved) = Captured.count
       /\ LocalDay(Saved[1].startDate) = Captured.startDate
       /\ \A i \in DOMAIN Saved :
             LocalWeekday(Saved[i].startDate) =
                 SelectedInOrder[((PlaceOf(Weekday(Captured.startDate)) + i - 2)
                                    % Len(SelectedInOrder)) + 1]

\* C15 where the browser's clock is UTC.
C15_AtUTC == tz = 0 => C15_CountCyclesWeekdays

\* ------------------------------------------------- claims on the mock API
\* This step is handleDeleteCoach calling coachesApi.delete, or a call of
\* studentsApi.delete.
CoachDeleteStep ==
    /\ apiEvent'.name = "coachesApi.delete"
    /\ coachPage'.event = "handleDeleteCoach"
    /\ coachPage' # coachPage
StudentDeleteStep ==
    /\ apiEvent'.name = "studentsApi.delete"
    /\ (apiEvent' # apiEvent \/ store' # store)

CoachOfAClass(id) == \E i \in DOMAIN store.classes : store.classes[i].coachId = id
StudentOfAClass(id) ==
    \E i \in DOMAIN store.classes : Includes(store.classes[i].studentIds, id)
IdIn(array, id) == \E i \in DOMAIN array : array[i].id = id

\* C16: deleting a coach that is the coachId of a class, or a student listed
\* in a class's studentIds, resolves to false and changes no array (the page
\* keeps its list and raises the alert); deleting an existing coach or student
\* that no class refers to resolves to true and removes that entity alone.
C16_DeleteIfNotReferenced ==
    [][/\ CoachDeleteStep =>
            LET id == apiEvent'.arg
            IN  /\ CoachOfAClass(id) =>
                      /\ apiEvent'.result = FALSE
                      /\ store' = store
                      /\ coachPage'.coaches = coachPage.coaches
                      /\ coachPage'.alert # ""
                /\ (IdIn(store.coaches, id) /\ ~CoachOfAClass(id)) =>
                      /\ apiEvent'.result = TRUE
                      /\ store' = [store EXCEPT
                                      !.coaches = SelectSeq(@, LAMBDA t : t.id # id)]
       /\ StudentDeleteStep =>
            LET id == apiEvent'.arg
            IN  /\ StudentOfAClass(id) =>
                      /\ apiEvent'.result = FALSE
                      /\ store' = store
                /\ (IdIn(store.students, id) /\ ~StudentOfAClass(id)) =>
                      /\ apiEvent'.result = TRUE
                      /\ store' = [store EXCEPT
                                      !.students = SelectSeq(@, LAMBDA t : t.id # id)]
      ]_vars

\* The page was refused the deletion of a coach who still coaches a class.
C16_Witness ==
    /\ apiEvent = ApiCalled("coachesApi.delete", 1, FALSE)
    /\ coachPage.event = "handleDeleteCoach"
    /\ coachPage.alert # ""
    /\ CoachOfAClass(1)
    /\ IdIn(store.coaches, 1)

\* The classes list of the stored coach with the given id.
ClassesOf(st, id) == st.coaches[FindIndex(st.coaches, id)].classes

\* C17: a class whose coachId is a coach's id, and which is in that coach's
\* classes list, is still in the list after every step of the coaches page
\* (as long as the coach and the class exist).
C17_AssignedClassStays ==
    [][\A i \in DOMAIN store.coaches, j \in DOMAIN store.classes :
          LET coach == store.coaches[i]
              classItem == store.classes[j]
          IN  (/\ classItem.coachId = coach.id
               /\ Includes(coach.classes, classItem.id)
               /\ IdIn(store'.coaches, coach.id)
               /\ IdIn(store'.classes, classItem.id))
              => Includes(ClassesOf(store', coach.id), classItem.id)
      ]_vars

\* This step is a call of classesApi.delete.
ClassDeleteStep ==
    /\ apiEvent'.name = "classesApi.delete"
    /\ (apiEvent' # apiEvent \/ store' # store)

\* C20: when classesApi.delete(id) resolves to true, the class is gone, no
\* stored schedule has classId = id, and the other classes, the schedules of
\* other classes, the students and the coaches are as before.
C20_ClassDeleteCascades ==
    [][(ClassDeleteStep /\ apiEvent'.result = TRUE) =>
          LET id == apiEvent'.arg
          IN  /\ ~IdIn(store'.classes, id)
              /\ \A i \in DOMAIN store'.schedules : store'.schedules[i].classId # id
              /\ store'.classes = SelectSeq(store.classes, LAMBDA c : c.id # id)
              /\ store'.schedules = SelectSeq(store.schedules, LAMBDA x : x.classId # id)
              /\ store'.students = store.students
              /\ store'.coaches = store.coaches
      ]_vars

\* Class 1 was deleted together with its two schedules; the schedule of
\* class 2 is left.
C20_Witness ==
    /\ apiEvent = ApiCalled("classesApi.delete", 1, TRUE)
    /\ store.schedules = <<StoredSchedule(2, 2)>>
    /\ IdIn(store.classes, 2)

\* The Save button created a schedule from the dialog of a new appointment.
SavedNew ==
    /\ showForm /\ ~showForm'
    /\ isNew
    /\ sfEvent'.name = "handleFormSubmit"
    /\ apiEvent'.name = "schedulesApi.create"

\* C18: when no title was typed into the dialog, the schedule the Save button
\* creates is titled with the name of the class selected when it was pressed.
C18_UntitledTakesSelectedClass ==
    [][(SavedNew /\ formData.title \notin TitleInputs) =>
          LET saved == store'.schedules[Len(store'.schedules)]
          IN  /\ saved.classId = formData.classId
              /\ saved.title = ClassName(formData.classId)]_vars

\* A recurring appointment of the page's list.
RecurringOnPage(id) ==
    FindIndex(schedules, id) # 0 /\ NonEmpty(schedules[FindIndex(schedules, id)].rRule)

\* A commitChanges step in which window.confirm was shown for the change of
\* the start or end of a recurring appointment, or for the deletion of a
\* recurring appointment, and answered with Cancel.
ConfirmationDeclined ==
    /\ sfEvent'.name = "commitChanges"
    /\ ~sfEvent'.arg.confirmed
    /\ LET changeSet == sfEvent'.arg.changeSet
       IN  \/ /\ changeSet.changed # <<>>
              /\ RecurringOnPage(changeSet.changed[1].id)
              /\ \/ HasField(changeSet.changed[1].changes, "startDate")
                 \/ HasField(changeSet.changed[1].changes, "endDate")
           \/ /\ changeSet.deleted # Empty
              /\ RecurringOnPage(changeSet.deleted)

\* C19: when the confirmation of commitChanges is declined, every schedule of
\* the API's array stays where and as it was, no schedulesApi.update or
\* schedulesApi.delete is called, and the page's list is unchanged.
C19_DeclinedChangesNothing ==
    [][ConfirmationDeclined =>
          /\ schedules' = schedules
          /\ \A i \in DOMAIN store.schedules :
                 i \in DOMAIN store'.schedules /\ store'.schedules[i] = store.schedules[i]
          /\ apiEvent' = apiEvent \/ apiEvent'.name = "schedulesApi.create"]_vars

\* The deletion of the weekly series was declined and the series is still in
\* the array and in the list.
C19_Witness ==
    /\ sfEvent.name = "commitChanges"
    /\ ~sfEvent.arg.confirmed
    /\ sfEvent.arg.changeSet.deleted = 2
    /\ RecurringOnPage(2)
    /\ FindIndex(store.schedules, 2) # 0

\* The array a call works on.
ArrayOf(st, name) ==
    IF name \in StudentsCalls THEN st.students
    ELSE IF name \in CoachesCalls THEN st.coaches
    ELSE IF name \in ClassesCalls THEN st.classes
    ELSE st.schedules

UpdateCalls == {"studentsApi.update", "coachesApi.update", "classesApi.update",
                "schedulesApi.update"}
DeleteCalls == {"studentsApi.delete", "coachesApi.delete", "classesApi.delete",
                "schedulesApi.delete"}
CreateCalls == {"studentsApi.create", "coachesApi.create", "classesApi.create",
                "schedulesApi.create"}

\* C21: an update or delete of any of the four API objects, called with an id
\* that its array does not hold, resolves to undefined / false and leaves
\* all four arrays as they were.
C21_MissingIdChangesNothing ==
    [][(/\ apiEvent'.name \in UpdateCalls \cup DeleteCalls
        /\ ~IdIn(ArrayOf(store, apiEvent'.name), apiEvent'.arg)) =>
           (apiEvent'.result = FALSE /\ store' = store)]_vars

\* The latest call was a delete with an id that its array does not hold.
C21_Witness ==
    /\ apiEvent.name \in DeleteCalls
    /\ ~apiEvent.result
    /\ ~IdIn(ArrayOf(store, apiEvent.name), apiEvent.arg)
    /\ Len(ArrayOf(store, apiEvent.name)) > 0

NoTwoWithSameId(array) ==
    \A i, j \in DOMAIN array : array[i].id = array[j].id => i = j

\* C23: in each of the four arrays no two records have the same id.
C23_UniqueIds ==
    /\ NoTwoWithSameId(store.students)
    /\ NoTwoWithSameId(store.coaches)
    /\ NoTwoWithSameId(store.classes)
    /\ NoTwoWithSameId(store.schedules)

\* create resolves to a record whose id no record of the array had.
C23_CreateReturnsFreshId ==
    [][apiEvent'.name \in CreateCalls =>
          ~IdIn(ArrayOf(store, apiEvent'.name), apiEvent'.arg)]_vars

\* C22: a submission of the appointment dialog, and one of RecurringClassForm,
\* that has set its in-progress flag sets it back to false (a submission that
\* validation rejects never leaves it true); and while isLoading is true
\* handleSubmit cannot be started.
C22_FlagsReturn ==
    /\ formSubmitting ~> ~formSubmitting
    /\ isLoading ~> ~isLoading
    /\ [](isLoading => ~ENABLED handleSubmit)

\* Both forms have a submission in progress.
C22_Witness == formSubmitting /\ isLoading

\* The Save button pressed right after the dialog was opened for a schedule.
SavedUnedited ==
    /\ sfEvent.name = "handleOpenForm"
    /\ sfEvent.arg = "edit"
    /\ sfEvent'.name = "handleFormSubmit"

C24_WithoutUntil ==
    [][SavedUnedited =>
          /\ Len(store'.schedules) = Len(store.schedules)
          /\ \A i \in DOMAIN store.schedules :
                 ~HasKey(store.schedules[i].rRule, "UNTIL") =>
                     /\ store'.schedules[i].startDate = store.schedules[i].startDate
                     /\ store'.schedules[i].endDate = store.schedules[i].endDate
                     /\ store'.schedules[i].rRule = store.schedules[i].rRule]_vars

\* FREQ value of a type of the Repeat selector.
FreqOfType(type) ==
    CASE type = "daily" -> "DAILY"
      [] type = "weekly" -> "WEEKLY"
      [] type = "monthly" -> "MONTHLY"
      [] type = "yearly" -> "YEARLY"

\* The Save button created a schedule: schedulesApi.create has stored it.
CreatedFromDialog ==
    /\ isNew
    /\ sfEvent'.name = "handleFormSubmit"
    /\ sfEvent'.arg = "await"
    /\ Len(store'.schedules) = Len(store.schedules) + 1

\* C25: the schedule created from the dialog has a rule whose FREQ is the type
\* shown by the Repeat selector, and no rule when the selector shows "none".
C25_RuleMatchesType ==
    [][CreatedFromDialog =>
          LET saved == store'.schedules[Len(store'.schedules)]
          IN  IF formData.recurrenceType = "none" THEN saved.rRule = Undefined
              ELSE HasFreq(saved.rRule, FreqOfType(formData.recurrenceType))]_vars

\* The part of it for the type "none".
C25_NoneHasNoRule ==
    [][(CreatedFromDialog /\ formData.recurrenceType = "none") =>
          store'.schedules[Len(store'.schedules)].rRule = Undefined]_vars
====
